---- MODULE Spec2Model ----
(***************************************************************************)
(* Model of scripts/raganything_service.py: the asynchronous job queue     *)
(* (AsyncJobQueue), its worker pool, the circuit breaker it reports to,    *)
(* and the POST /process handler threads that feed it.                     *)
(*                                                                         *)
(* Job objects are Python references: `job` is the heap of Job objects     *)
(* (index = job id), `jobs` the key set of the live map self.jobs and      *)
(* `job_history` the deque of retired jobs, both referring to heap objects.*)
(* The worker stores a job's status and its result or error in separate    *)
(* statements; each is a step of its own, because a thread that reads a    *)
(* Job without the queue lock (Job.to_dict in do_GET) can run in between.  *)
(*                                                                         *)
(* Specifications, all over the same variables:                            *)
(*   Spec, FairSpec  handlers and pool threads                             *)
(*   ProcSpec        _do_process in detail                                 *)
(*   BreakerSpec     CircuitBreaker alone, with a running clock            *)
(*   HttpSpec        handle_process branch by branch, with its responses   *)
(*   LimiterSpec     IpRateLimiter alone, with a running clock             *)
(*   LookupSpec      GET /jobs/<id> beside handlers and pool threads       *)
(*   PathSpec        sanitize_pdf_path over a small file tree              *)
(*   AuthSpec        the routing of do_GET and do_POST                     *)
(*   LockSpec        the threads at the level of their locks               *)
(*   ParserSpec      ProcSpec with the shared rag.config.parser            *)
(***************************************************************************)
EXTENDS Integers, Sequences, FiniteSets, TLC

\* ---------------------------------------------------------------- bounds
\* Job ids that may be issued (uuid4 prefixes, taken to be distinct).
MaxJobs == 3
\* Concurrent HTTP handler threads (ThreadingMixIn starts one per request).
NumHandlers == 2
\* Handler threads of the lock-level model.
NumLockHandlers == 1
\* MAX_QUEUE_DEPTH (10 in the source), scaled so that the capacity is reached.
MAX_QUEUE_DEPTH == 0
\* MAX_JOB_HISTORY (100 in the source), scaled so that the history fills up.
MAX_JOB_HISTORY == 2
\* Distinct file contents that are submitted.
NumContents == 2
\* Jobs followed through _do_process in ProcSpec.
MaxProcJobs == 2
\* BreakerSpec: the clock runs from 0 to MaxTime (minutes).
MaxTime == 7
\* BreakerSpec: failure_threshold is configured from 1..MaxThreshold.
MaxThreshold == 4
\* the jobs of the heap in HttpSpec, earlier failed ones included
MaxHttpJobs == 4
\* LimiterSpec: max_requests is configured from 0..MaxRequests.
MaxRequests == 2
\* LimiterSpec: window_sec is configured from 0..MaxWindow (seconds).
MaxWindow == 2
\* LimiterSpec: the clock runs from 0 to MaxTicks.
MaxTicks == 5
\* LimiterSpec: client addresses that call.
NumClients == 2
\* LimiterSpec: allow calls made.
MaxAllowCalls == 4
\* the table size past which stale buckets are to be reclaimed, scaled
SweepThreshold == 1
\* BreakerSpec: record_failure calls made between two resets.
MaxFailureCalls == 4
\* BreakerSpec: a recovery_timeout shorter than the failure window.
ShortRecoveryTimeout == 2
\* maxlen of CircuitBreaker.failures (10 in the source), scaled so that a
\* configured threshold can exceed it.
FAILURES_MAXLEN == 3

\* ------------------------------------------------------ program constants
\* The clock counts minutes.
MAX_CONCURRENT_JOBS == 2
\* CircuitBreaker(failure_threshold=3, recovery_timeout=300): 300 s = 5 min
DEFAULT_FAILURE_THRESHOLD == 3
DEFAULT_RECOVERY_TIMEOUT == 5
\* timedelta(minutes=5)
FAILURE_WINDOW == 5
\* RAG_RATE_LIMIT_MAX_REQUESTS and RAG_RATE_LIMIT_WINDOW_SEC
RATE_LIMIT_MAX_REQUESTS == 120
RATE_LIMIT_WINDOW_SEC == 60

max_workers == MAX_CONCURRENT_JOBS
failure_threshold == DEFAULT_FAILURE_THRESHOLD
recovery_timeout == DEFAULT_RECOVERY_TIMEOUT

\* Optional[T]: None is the empty tuple, a value x is <<x>>.
None == <<>>
Some(x) == <<x>>
IsSet(v) == v # None
QUEUED == "queued"
PROCESSING == "processing"
COMPLETED == "completed"
FAILED == "failed"
JobStatus == {QUEUED, PROCESSING, COMPLETED, FAILED}

\* datetime.now().isoformat(): a timestamp string of the current instant.
Stamp(t) == Some("ts")

JobIds == 1..MaxJobs
Workers == 1..max_workers
Handlers == 1..NumHandlers

VARIABLES
    job,            \* heap of Job objects, job[id]
    jobs,           \* AsyncJobQueue.jobs: ids in the live map
    job_history,    \* AsyncJobQueue.job_history: deque(maxlen=MAX_JOB_HISTORY)
    lock,           \* AsyncJobQueue.lock: 0 (free) or the worker holding it
    executor,       \* ThreadPoolExecutor work queue (FIFO of job ids)
    wpc,            \* worker position in _process_job
    wjob,           \* the job argument of the worker's _process_job call
    wresult,        \* the worker's local `result`
    wexc,           \* the exception `e` the worker caught
    breaker,        \* the global CircuitBreaker
    now,            \* the clock
    hpc,            \* handler position in handle_process
    hreq,           \* the job submit_job created for the handler's request
    webhook_log,    \* requests.post calls made by _call_webhook
    breaker_log,    \* record_success / record_failure calls, per job
    hashes,         \* PDFHashStore.hashes: content hash -> record
    host_path_prefix, \* whether RAG_HOST_PATH_PREFIX is configured
    parsers_to_try, \* _do_process: parsers not yet given up, current one first
    backend_log,    \* backend calls made by _do_process, per job
    cb_call,        \* the last call made on a CircuitBreaker by a direct caller
    failure_calls,  \* the times of the record_failure calls since the last reset
    hin,            \* handle_process: the request fields passed to submit_job
    response,       \* the last response sent by handle_process
    dns,            \* what the webhook host name resolves to at present
    resolved_at_submit, \* per job: what its webhook host resolved to at submission
    limiter,        \* the IpRateLimiter's max_requests and window_sec
    requests,       \* IpRateLimiter._requests: client -> deque of timestamps
    rl_lock,        \* IpRateLimiter._lock: 0 (free) or the thread holding it
    lpc,            \* request thread position in allow
    lnow,           \* allow: the thread's local `now`
    lclient,        \* allow: the thread's client_ip argument
    calls,          \* the allow calls in the order they returned
    gpc,            \* position of the thread serving GET /jobs/<id>
    gid,            \* do_GET: the job_id asked for
    gsnap,          \* do_GET: the history as it was when the iterator was made
    gpos,           \* do_GET: the iterator's position in the history
    gresp,          \* the last answer to a GET /jobs/<id>
    allowed_pdf_roots, \* ALLOWED_PDF_ROOTS: the canonical allowed roots
    allow_unsafe_pdf_paths, \* ALLOW_UNSAFE_PDF_PATHS
    pcall,          \* the last sanitize_pdf_path call: its argument and how it ended
    areq,           \* the last request routed by do_GET / do_POST: its path and credential
    queries,        \* the _query_sync calls made
    holder,         \* the thread that holds each threading.Lock, or None
    prog,           \* the lock operations left in each thread's current call
    coro,           \* the lock operations left in each worker's _do_process coroutine
    rag_config_parser, \* rag.config.parser of the one RAGAnything instance
    wread,          \* per worker: the backend call it awaits has read rag.config.parser
    backend_ran     \* per job: the parser each backend call was started for and the one it read

\* the variables of the request handlers in detail
http_vars == <<hin, response, dns, resolved_at_submit>>

\* the variables of the rate limiter
limiter_vars == <<limiter, requests, rl_lock, lpc, lnow, lclient, calls>>

\* the variables of the job lookup
lookup_vars == <<gpc, gid, gsnap, gpos, gresp>>

\* the variables of the path guard
guard_vars == <<allowed_pdf_roots, allow_unsafe_pdf_paths, pcall>>

\* the variables of the request routing
auth_vars == <<areq, queries>>

\* the locks and the threads' positions of the lock-level model
lock_vars == <<holder, prog, coro>>

\* the parser setting of the shared RAGAnything instance and what the backend calls read of it
parser_vars == <<rag_config_parser, wread, backend_ran>>

\* the variables of _do_process, of the direct breaker calls, of the
\* request handlers in detail, of the rate limiter and of the job lookup
ext == <<hashes, host_path_prefix, parsers_to_try, backend_log, cb_call,
         failure_calls, http_vars, limiter_vars, lookup_vars, guard_vars, auth_vars, lock_vars, parser_vars>>

vars == <<job, jobs, job_history, lock, executor, wpc, wjob, wresult, wexc,
          breaker,
          now, hpc, hreq, webhook_log, breaker_log, ext>>

\* ------------------------------------------------------- small helpers
\* dict.get(key, default)
DictGet(d, k, default) == IF k \in DOMAIN d THEN d[k] ELSE default

\* deque(maxlen=n).append(x): a full deque drops its leftmost element.
DequeAppend(d, x, n) ==
    IF n = 0 THEN <<>>
    ELSE IF Len(d) >= n THEN Append(Tail(d), x)
    ELSE Append(d, x)

\* --------------------------------------------------- CircuitBreaker
NewBreaker(threshold, timeout) ==
    [failure_threshold |-> threshold, recovery_timeout |-> timeout,
     failures |-> <<>>, state |-> "closed", last_failure_time |-> None]

\* [f for f in self.failures if now - f < timedelta(minutes=5)]
RecentFailures(failures, t) ==
    {i \in 1..Len(failures) : t - failures[i] < FAILURE_WINDOW}

record_failure(cb, t) ==
    LET fs == DequeAppend(cb.failures, t, FAILURES_MAXLEN)
    IN [cb EXCEPT !.failures = fs,
                  !.last_failure_time = Some(t),
                  !.state = IF Cardinality(RecentFailures(fs, t)) >= cb.failure_threshold
                            THEN "open" ELSE @]

\* Mutant: a success also forgets the failures logged so far.
record_success_forgets(cb) == [cb EXCEPT !.state = "closed", !.failures = <<>>]

\* Mutant: only a Half-Open breaker is closed by a success.
record_success_probe_only(cb) ==
    [cb EXCEPT !.state = IF @ = "half-open" THEN "closed" ELSE @]

record_success(cb) == [cb EXCEPT !.state = "closed"]

\* Mutant: the breaker half-opens only when more than recovery_timeout has
\* elapsed.
can_proceed_strict(cb, t) ==
    IF cb.state = "closed" THEN <<TRUE, cb>>
    ELSE IF cb.state = "open" THEN
        IF IsSet(cb.last_failure_time)
           /\ t - cb.last_failure_time[1] > cb.recovery_timeout
        THEN <<TRUE, [cb EXCEPT !.state = "half-open"]>>
        ELSE <<FALSE, cb>>
    ELSE <<TRUE, cb>>

\* can_proceed: <<returned value, breaker afterwards>>
can_proceed(cb, t) ==
    IF cb.state = "closed" THEN <<TRUE, cb>>
    ELSE IF cb.state = "open" THEN
        IF IsSet(cb.last_failure_time)
           /\ t - cb.last_failure_time[1] >= cb.recovery_timeout
        THEN <<TRUE, [cb EXCEPT !.state = "half-open"]>>
        ELSE <<FALSE, cb>>
    ELSE <<TRUE, cb>>

\* ----------------------------------------------------- AsyncJobQueue
NewJob(webhook_url) ==
    [status |-> QUEUED, webhook_url |-> webhook_url, started_at |-> None,
     completed_at |-> None, result |-> None, error |-> None]

\* Mutant: every job of the live map is counted, terminal ones too.
get_active_count_all == Cardinality(jobs)

\* get_active_count, evaluated under the queue lock
get_active_count ==
    Cardinality({id \in jobs : job[id].status \in {QUEUED, PROCESSING}})

can_accept == get_active_count < max_workers + MAX_QUEUE_DEPTH

\* What run_in_shared_loop(self._do_process(job)) can return: _do_process
\* catches every Exception and returns a success or a failure dict.
DoProcessResults ==
    { [success |-> TRUE, indexed |-> TRUE],
      [success |-> FALSE, error |-> "backend error"] }

\* Text of an exception that escapes run_in_shared_loop.
ExceptionTexts == {"unexpected"}

\* Mutant: the payload is a snapshot taken when the job started.
WebhookPayload_stale(id) ==
    [job_id |-> id, status |-> PROCESSING, result |-> None, error |-> None]

\* payload built by _call_webhook
WebhookPayload(id) ==
    [job_id |-> id, status |-> job[id].status, result |-> job[id].result,
     error |-> job[id].error]

\* data.get("webhook_url"): absent or a URL
WebhookUrls == {None, Some("http://hook")}

\* the handler's local `job` before submit_job has returned one
NoRequest == [job_id |-> 0]

\* no direct call has been made on the breaker
NoCall == [op |-> "none", ret |-> None]

\* no response has been sent yet
NoResponse == [code |-> 0, retry_after |-> None, job_id |-> 0,
               webhook_post |-> None, toggle |-> FALSE]

\* the request handlers in detail, before any request
HandlerVarsInit ==
    /\ hin = [h \in Handlers |-> None]
    /\ response = NoResponse
    /\ dns = "public"
    /\ resolved_at_submit = <<>>

\* no GET /jobs/<id> has been answered yet
NoLookup == [id |-> 0, outcome |-> "none"]

\* the job lookup, before any request
LookupVarsInit ==
    /\ gpc = "idle"
    /\ gid = 0
    /\ gsnap = <<>>
    /\ gpos = 0
    /\ gresp = NoLookup

\* no sanitize_pdf_path call has been made yet
NoPathCall == [input |-> None, outcome |-> None]

\* the path guard, before any request: RAG_ALLOWED_PDF_ROOTS names one root
GuardVarsInit ==
    /\ allowed_pdf_roots = << <<"allowed">> >>
    /\ allow_unsafe_pdf_paths = FALSE
    /\ pcall = NoPathCall

\* no request has been routed yet
NoAuthRequest == [method |-> "none", path |-> "", credential |-> None]

\* the routing of do_GET and do_POST, before any request
AuthVarsInit ==
    /\ areq = NoAuthRequest
    /\ queries = 0

\* The threading.Lock objects of the service: AsyncJobQueue.lock,
\* CircuitBreaker.lock, IpRateLimiter._lock, PDFHashStore.lock, rag_lock and
\* _loop_lock.
QUEUE_LOCK == "job_queue.lock"
BREAKER_LOCK == "circuit_breaker.lock"
LIMITER_LOCK == "ip_rate_limiter._lock"
HASH_LOCK == "pdf_hash_store.lock"
RAG_LOCK == "rag_lock"
LOOP_LOCK == "_loop_lock"
Locks == {QUEUE_LOCK, BREAKER_LOCK, LIMITER_LOCK, HASH_LOCK, RAG_LOCK, LOOP_LOCK}

\* The request handler threads, the pool threads and the thread that runs
\* the shared event loop.
HandlerThread(h) == <<"handler", h>>
WorkerThread(w) == <<"worker", w>>
LoopThread == <<"loop", 0>>
LockHandlers == 1..NumLockHandlers
LockThreads ==
    {HandlerThread(h) : h \in LockHandlers}
      \cup {WorkerThread(w) : w \in Workers} \cup {LoopThread}

\* no thread of the lock-level model has started a call
LockVarsInit ==
    /\ holder = [l \in Locks |-> None]
    /\ prog = [t \in LockThreads |-> <<>>]
    /\ coro = [w \in Workers |-> <<>>]

\* the RAGAnything instance as get_rag_instance builds it
\* (RAGAnythingConfig(parser="mineru")), no backend call made
ParserVarsInit ==
    /\ rag_config_parser = "mineru"
    /\ wread = [w \in Workers |-> FALSE]
    /\ backend_ran = [id \in 1..MaxProcJobs |-> <<>>]

\* the request handlers, the rate limiter and the job lookup, before any
\* request
HttpVarsInit ==
    /\ HandlerVarsInit
    /\ limiter = [max_requests |-> RATE_LIMIT_MAX_REQUESTS,
                  window_sec |-> RATE_LIMIT_WINDOW_SEC]
    /\ requests = <<>>
    /\ rl_lock = 0
    /\ lpc = [h \in Handlers |-> "idle"]
    /\ lnow = [h \in Handlers |-> 0]
    /\ lclient = [h \in Handlers |-> 0]
    /\ calls = <<>>
    /\ LookupVarsInit
    /\ ParserVarsInit
    /\ LockVarsInit
    /\ AuthVarsInit
    /\ GuardVarsInit

Init ==
    /\ job = <<>>
    /\ jobs = {}
    /\ job_history = <<>>
    /\ lock = 0
    /\ executor = <<>>
    /\ wpc = [w \in Workers |-> "idle"]
    /\ wjob = [w \in Workers |-> 0]
    /\ wresult = [w \in Workers |-> None]
    /\ wexc = [w \in Workers |-> None]
    /\ breaker = NewBreaker(failure_threshold, recovery_timeout)
    /\ now = 0
    /\ hpc = [h \in Handlers |-> "idle"]
    /\ hreq = [h \in Handlers |-> NoRequest]
    /\ webhook_log = <<>>
    /\ breaker_log = <<>>
    /\ hashes = <<>>
    /\ host_path_prefix = FALSE
    /\ parsers_to_try = [w \in Workers |-> <<>>]
    /\ backend_log = <<>>
    /\ cb_call = NoCall
    /\ failure_calls = <<>>
    /\ HttpVarsInit

\* ------------------------------------------------ POST /process handler
\* Handler threads and pool threads are interchangeable: a new request (a
\* new work item) is given to the lowest-numbered free thread.
FreeHandler(h) ==
    /\ hpc[h] = "idle"
    /\ \A g \in Handlers : g < h => hpc[g] # "idle"

\* A POST /process arrives and handle_process starts:
\* if not circuit_breaker.can_proceed(): 503.
\* At most MaxJobs requests get past this point.
HandlerCanProceed(h) ==
    /\ FreeHandler(h)
    /\ Len(job) + Cardinality({g \in Handlers : hpc[g] # "idle"}) < MaxJobs
    /\ LET r == can_proceed(breaker, now) IN
         /\ breaker' = r[2]
         /\ hpc' = [hpc EXCEPT ![h] = IF r[1] THEN "can_accept" ELSE "idle"]
    /\ UNCHANGED ext
    /\ UNCHANGED <<job, jobs, job_history, lock, executor, wpc, wjob, wresult,
                   wexc, now, hreq, webhook_log, breaker_log>>

\* if not job_queue.can_accept(): 429
HandlerCanAccept(h) ==
    /\ hpc[h] = "can_accept"
    /\ lock = 0
    /\ hpc' = [hpc EXCEPT ![h] = IF can_accept THEN "validate" ELSE "idle"]
    /\ UNCHANGED ext
    /\ UNCHANGED <<job, jobs, job_history, lock, executor, wpc, wjob, wresult,
                   wexc, breaker, now, hreq, webhook_log, breaker_log>>

\* read_json_body, the required fields, the cached-output check and
\* sanitize_pdf_path: the request is answered without a job (400, 403, 404
\* or 200 cached) or goes on to submit_job.
HandlerValidate(h) ==
    /\ hpc[h] = "validate"
    /\ \E next \in {"idle", "submit_job"} : hpc' = [hpc EXCEPT ![h] = next]
    /\ UNCHANGED ext
    /\ UNCHANGED <<job, jobs, job_history, lock, executor, wpc, wjob, wresult,
                   wexc, breaker, now, hreq, webhook_log, breaker_log>>

\* submit_job: job = Job(...); with self.lock: self.jobs[job_id] = job
\* The request's webhook_url (absent or given) becomes the job's.
SubmitJobInsert(h) ==
    /\ hpc[h] = "submit_job"
    /\ lock = 0
    /\ \E url \in WebhookUrls : job' = Append(job, NewJob(url))
    /\ jobs' = jobs \cup {Len(job) + 1}
    /\ webhook_log' = Append(webhook_log, <<>>)
    /\ breaker_log' = Append(breaker_log, <<>>)
    /\ hpc' = [hpc EXCEPT ![h] = "executor_submit"]
    /\ hreq' = [hreq EXCEPT ![h] = [job_id |-> Len(job) + 1]]
    /\ UNCHANGED ext
    /\ UNCHANGED <<job_history, lock, executor, wpc, wjob, wresult, wexc,
                   breaker, now>>

\* submit_job: self.executor.submit(self._process_job, job); return job;
\* the 202 response is sent and the handler thread ends.
SubmitJobExecutor(h) ==
    /\ hpc[h] = "executor_submit"
    /\ executor' = Append(executor, hreq[h].job_id)
    /\ hpc' = [hpc EXCEPT ![h] = "idle"]
    /\ hreq' = [hreq EXCEPT ![h] = NoRequest]
    /\ UNCHANGED ext
    /\ UNCHANGED <<job, jobs, job_history, lock, wpc, wjob, wresult, wexc,
                   breaker, now, webhook_log, breaker_log>>

\* ------------------------------------------------- worker: _process_job
\* Mutant: the worker forgets to mark the job Processing.
MarkProcessing_skipped(j) == j

\* job.status = JobStatus.PROCESSING; job.started_at = datetime.now()...
MarkProcessing(j) == [j EXCEPT !.status = PROCESSING, !.started_at = Stamp(now)]

\* Mutant: the else branch does not store the Failed status.
OutcomeStatus_no_else(result) ==
    IF DictGet(result, "success", FALSE) THEN COMPLETED ELSE PROCESSING

\* if result.get("success"): COMPLETED else: FAILED
OutcomeStatus(result) ==
    IF DictGet(result, "success", FALSE) THEN COMPLETED ELSE FAILED

\* job.error = result.get("error", "Unknown error")
OutcomeError(result) == DictGet(result, "error", "Unknown error")

\* Mutant: record_failure is called whatever the result.
OutcomeBreakerCall_always_failure(result) == "record_failure"

\* the breaker method called for a result: record_success or record_failure
OutcomeBreakerCall(result) ==
    IF DictGet(result, "success", FALSE) THEN "record_success" ELSE "record_failure"

\* Mutant: the except branch leaves the status alone.
ExceptStatus_unchanged == PROCESSING

\* the status the except branch stores
ExceptStatus == FAILED

\* Mutant: the history is a plain list without maxlen.
HistoryAppend_unbounded(h, id) == Append(h, id)

\* self.job_history.append(...) on deque(maxlen=MAX_JOB_HISTORY)
HistoryAppend(h, id) == DequeAppend(h, id, MAX_JOB_HISTORY)

ApplyBreakerCall(call, cb, t) ==
    IF call = "record_success" THEN record_success(cb) ELSE record_failure(cb, t)

\* Mutant: a work item stays on the executor's queue when it is taken.
WorkQueueAfterGet_keeps(q) == q

\* The executor's work queue once a pool thread has taken its first item.
WorkQueueAfterGet(q) == Tail(q)

\* A pool thread takes the next work item off the executor's queue.
WorkerTake(w) ==
    /\ wpc[w] = "idle"
    /\ \A v \in Workers : v < w => wpc[v] # "idle"
    /\ executor # <<>>
    /\ wjob' = [wjob EXCEPT ![w] = Head(executor)]
    /\ executor' = WorkQueueAfterGet(executor)
    /\ wpc' = [wpc EXCEPT ![w] = "status_processing"]
    /\ UNCHANGED ext
    /\ UNCHANGED <<job, jobs, job_history, lock, wresult, wexc, breaker, now,
                   hpc, hreq, webhook_log, breaker_log>>

\* with self.lock: job.status = JobStatus.PROCESSING; job.started_at = ...
WorkerStatusProcessing(w) ==
    /\ wpc[w] = "status_processing"
    /\ lock = 0
    /\ job' = [job EXCEPT ![wjob[w]] = MarkProcessing(@)]
    /\ wpc' = [wpc EXCEPT ![w] = "run"]
    /\ UNCHANGED ext
    /\ UNCHANGED <<jobs, job_history, lock, executor, wjob, wresult, wexc,
                   breaker, now, hpc, hreq, webhook_log, breaker_log>>

\* result = run_in_shared_loop(self._do_process(job)) returns a dict
WorkerRunReturns(w) ==
    /\ wpc[w] = "run"
    /\ \E r \in DoProcessResults : wresult' = [wresult EXCEPT ![w] = Some(r)]
    /\ wpc' = [wpc EXCEPT ![w] = "status"]
    /\ UNCHANGED ext
    /\ UNCHANGED <<job, jobs, job_history, lock, executor, wjob, wexc, breaker,
                   now, hpc, hreq, webhook_log, breaker_log>>

\* Mutant: _process_job has no except branch, the exception ends the thread.
ExceptEntry_uncaught == "crashed"

\* try: ... except Exception as e: where the worker continues after a raise
ExceptEntry == "except_status"

\* run_in_shared_loop raises: control goes to `except Exception as e`
WorkerRunRaises(w) ==
    /\ wpc[w] = "run"
    /\ \E e \in ExceptionTexts : wexc' = [wexc EXCEPT ![w] = Some(e)]
    /\ wpc' = [wpc EXCEPT ![w] = ExceptEntry]
    /\ UNCHANGED ext
    /\ UNCHANGED <<job, jobs, job_history, lock, executor, wjob, wresult,
                   breaker, now, hpc, hreq, webhook_log, breaker_log>>

\* with self.lock: job.completed_at = datetime.now().isoformat()
\*                 job.status = JobStatus.COMPLETED  or  JobStatus.FAILED
WorkerStatus(w) ==
    /\ wpc[w] = "status"
    /\ lock = 0
    /\ lock' = w
    /\ job' = [job EXCEPT ![wjob[w]].completed_at = Stamp(now),
                          ![wjob[w]].status = OutcomeStatus(wresult[w][1])]
    /\ wpc' = [wpc EXCEPT ![w] =
                 IF DictGet(wresult[w][1], "success", FALSE) THEN "result" ELSE "error"]
    /\ UNCHANGED ext
    /\ UNCHANGED <<jobs, job_history, executor, wjob, wresult, wexc, breaker,
                   now, hpc, hreq, webhook_log, breaker_log>>

\* job.result = result
WorkerResult(w) ==
    /\ wpc[w] = "result"
    /\ lock = w
    /\ job' = [job EXCEPT ![wjob[w]].result = Some(wresult[w][1])]
    /\ wpc' = [wpc EXCEPT ![w] = "breaker"]
    /\ UNCHANGED ext
    /\ UNCHANGED <<jobs, job_history, lock, executor, wjob, wresult, wexc,
                   breaker, now, hpc, hreq, webhook_log, breaker_log>>

\* job.error = result.get("error", "Unknown error")
WorkerError(w) ==
    /\ wpc[w] = "error"
    /\ lock = w
    /\ job' = [job EXCEPT ![wjob[w]].error = Some(OutcomeError(wresult[w][1]))]
    /\ wpc' = [wpc EXCEPT ![w] = "breaker"]
    /\ UNCHANGED ext
    /\ UNCHANGED <<jobs, job_history, lock, executor, wjob, wresult, wexc,
                   breaker, now, hpc, hreq, webhook_log, breaker_log>>

\* circuit_breaker.record_success() / record_failure(), still under the
\* queue lock, which is released afterwards
WorkerBreaker(w) ==
    /\ wpc[w] = "breaker"
    /\ lock = w
    /\ LET call == OutcomeBreakerCall(wresult[w][1]) IN
         /\ breaker' = ApplyBreakerCall(call, breaker, now)
         /\ breaker_log' = [breaker_log EXCEPT ![wjob[w]] = Append(@, call)]
    /\ lock' = 0
    /\ wpc' = [wpc EXCEPT ![w] = "webhook"]
    /\ UNCHANGED ext
    /\ UNCHANGED <<job, jobs, job_history, executor, wjob, wresult, wexc, now,
                   hpc, hreq, webhook_log>>

\* What requests.post can do in _call_webhook: return a response, or raise
\* (connection error, timeout after 30 s).
DeliveryOutcomes == {"delivered", "raised"}

\* Mutant: _call_webhook has no try/except, the exception reaches the
\* except branch of _process_job.
AfterWebhookFailure_propagates == "except_status"

\* _call_webhook: except Exception as e: print(...); the worker goes on to
\* the move to the history.
AfterWebhookFailure == "history"

\* if job.webhook_url: self._call_webhook(job)
\* _call_webhook builds the payload and calls requests.post once.
WorkerWebhook(w) ==
    /\ wpc[w] = "webhook"
    /\ IF IsSet(job[wjob[w]].webhook_url)
       THEN /\ webhook_log' = [webhook_log EXCEPT ![wjob[w]] =
                                 Append(@, WebhookPayload(wjob[w]))]
            /\ \E o \in DeliveryOutcomes :
                 wpc' = [wpc EXCEPT ![w] =
                           IF o = "delivered" THEN "history" ELSE "webhook_failed"]
       ELSE /\ webhook_log' = webhook_log
            /\ wpc' = [wpc EXCEPT ![w] = "history"]
    /\ UNCHANGED ext
    /\ UNCHANGED <<job, jobs, job_history, lock, executor, wjob, wresult, wexc,
                   breaker, now, hpc, hreq, breaker_log>>

\* _call_webhook: except Exception as e: print("[Webhook] Failed ...")
WorkerWebhookFailed(w) ==
    /\ wpc[w] = "webhook_failed"
    /\ wpc' = [wpc EXCEPT ![w] = AfterWebhookFailure]
    /\ UNCHANGED ext
    /\ UNCHANGED <<job, jobs, job_history, lock, executor, wjob, wresult, wexc,
                   breaker, now, hpc, hreq, webhook_log, breaker_log>>

\* Mutant: the job is appended to the history but stays in the live map.
JobsPop_keeps(live, id) == live

\* self.jobs.pop(job.job_id): the live map afterwards
JobsPop(live, id) == live \ {id}

\* with self.lock: if job.job_id in self.jobs:
\*     self.job_history.append(self.jobs.pop(job.job_id))
\* _process_job returns and the pool thread is free again.
WorkerHistory(w) ==
    /\ wpc[w] = "history"
    /\ lock = 0
    /\ IF wjob[w] \in jobs
       THEN /\ job_history' = HistoryAppend(job_history, wjob[w])
            /\ jobs' = JobsPop(jobs, wjob[w])
       ELSE UNCHANGED <<job_history, jobs>>
    /\ wpc' = [wpc EXCEPT ![w] = "idle"]
    /\ wjob' = [wjob EXCEPT ![w] = 0]
    /\ wresult' = [wresult EXCEPT ![w] = None]
    /\ UNCHANGED ext
    /\ UNCHANGED <<job, lock, executor, wexc, breaker, now, hpc, hreq, webhook_log, breaker_log>>

\* except Exception as e: with self.lock: job.status = JobStatus.FAILED
WorkerExceptStatus(w) ==
    /\ wpc[w] = "except_status"
    /\ lock = 0
    /\ lock' = w
    /\ job' = [job EXCEPT ![wjob[w]].status = ExceptStatus]
    /\ wpc' = [wpc EXCEPT ![w] = "except_error"]
    /\ UNCHANGED ext
    /\ UNCHANGED <<jobs, job_history, executor, wjob, wresult, wexc, breaker,
                   now, hpc, hreq, webhook_log, breaker_log>>

\* job.error = str(e); job.completed_at = datetime.now().isoformat();
\* the lock is released
WorkerExceptError(w) ==
    /\ wpc[w] = "except_error"
    /\ lock = w
    /\ job' = [job EXCEPT ![wjob[w]].error = wexc[w],
                          ![wjob[w]].completed_at = Stamp(now)]
    /\ lock' = 0
    /\ wpc' = [wpc EXCEPT ![w] = "except_breaker"]
    /\ UNCHANGED ext
    /\ UNCHANGED <<jobs, job_history, executor, wjob, wresult, wexc, breaker,
                   now, hpc, hreq, webhook_log, breaker_log>>

\* circuit_breaker.record_failure(), outside the queue lock
WorkerExceptBreaker(w) ==
    /\ wpc[w] = "except_breaker"
    /\ breaker' = record_failure(breaker, now)
    /\ breaker_log' = [breaker_log EXCEPT ![wjob[w]] = Append(@, "record_failure")]
    /\ wpc' = [wpc EXCEPT ![w] = "except_webhook"]
    /\ UNCHANGED ext
    /\ UNCHANGED <<job, jobs, job_history, lock, executor, wjob, wresult, wexc,
                   now, hpc, hreq, webhook_log>>

\* except branch: if job.webhook_url: self._call_webhook(job); after a
\* delivery _process_job returns with the job still in the live map.
WorkerExceptWebhook(w) ==
    /\ wpc[w] = "except_webhook"
    /\ IF IsSet(job[wjob[w]].webhook_url)
       THEN /\ webhook_log' = [webhook_log EXCEPT ![wjob[w]] =
                                 Append(@, WebhookPayload(wjob[w]))]
            /\ \E o \in DeliveryOutcomes :
                 IF o = "delivered"
                 THEN /\ wpc' = [wpc EXCEPT ![w] = "idle"]
                      /\ wjob' = [wjob EXCEPT ![w] = 0]
                      /\ wexc' = [wexc EXCEPT ![w] = None]
                 ELSE /\ wpc' = [wpc EXCEPT ![w] = "except_webhook_failed"]
                      /\ UNCHANGED <<wjob, wexc>>
       ELSE /\ webhook_log' = webhook_log
            /\ wpc' = [wpc EXCEPT ![w] = "idle"]
            /\ wjob' = [wjob EXCEPT ![w] = 0]
            /\ wexc' = [wexc EXCEPT ![w] = None]
    /\ UNCHANGED ext
    /\ UNCHANGED <<job, jobs, job_history, lock, executor, wresult, breaker,
                   now, hpc, hreq, breaker_log>>

\* _call_webhook called from the except branch: except Exception as e:
\* print(...); _process_job returns with the job still in the live map.
WorkerExceptWebhookFailed(w) ==
    /\ wpc[w] = "except_webhook_failed"
    /\ wpc' = [wpc EXCEPT ![w] = "idle"]
    /\ wjob' = [wjob EXCEPT ![w] = 0]
    /\ wexc' = [wexc EXCEPT ![w] = None]
    /\ UNCHANGED ext
    /\ UNCHANGED <<job, jobs, job_history, lock, executor, wresult, breaker,
                   now, hpc, hreq, webhook_log, breaker_log>>

Handler(h) ==
    \/ HandlerCanProceed(h)
    \/ HandlerCanAccept(h)
    \/ HandlerValidate(h)
    \/ SubmitJobInsert(h)
    \/ SubmitJobExecutor(h)

Worker(w) ==
    \/ WorkerTake(w)
    \/ WorkerStatusProcessing(w)
    \/ WorkerRunReturns(w)
    \/ WorkerRunRaises(w)
    \/ WorkerStatus(w)
    \/ WorkerResult(w)
    \/ WorkerError(w)
    \/ WorkerBreaker(w)
    \/ WorkerWebhook(w)
    \/ WorkerWebhookFailed(w)
    \/ WorkerHistory(w)
    \/ WorkerExceptStatus(w)
    \/ WorkerExceptError(w)
    \/ WorkerExceptBreaker(w)
    \/ WorkerExceptWebhook(w)
    \/ WorkerExceptWebhookFailed(w)

Next ==
    \/ \E h \in Handlers : Handler(h)
    \/ \E w \in Workers : Worker(w)

Spec == Init /\ [][Next]_vars

\* Threads are scheduled fairly and a thread waiting for the queue lock gets
\* it eventually; every backend call returns or raises (WorkerRunReturns,
\* WorkerRunRaises).
FairSpec ==
    /\ Spec
    /\ \A w \in Workers : SF_vars(Worker(w))
    /\ \A h \in Handlers : SF_vars(SubmitJobInsert(h) \/ SubmitJobExecutor(h))

\* ------------------------------------------------ _do_process in detail
\* ProcSpec follows the jobs whose run_in_shared_loop call returns, through
\* the statements of _do_process.  All _do_process coroutines run on the one
\* shared event loop, so a coroutine runs undisturbed by the others from one
\* await to the next; the only await is the backend call.  handle_process is
\* reduced to its submit_job call, the admission checks in front of it (see
\* Spec) only remove behaviours.

\* get_pdf_hash: SHA-256 of the file's bytes; a file is named by its content.
get_pdf_hash(pdf_path) == <<"sha256", pdf_path>>

\* Mutant: the lookup ignores force_reprocess.
LookupWanted_always(j) == TRUE

\* if not job.force_reprocess: the hash store is consulted
LookupWanted(j) == ~j.force_reprocess

\* PDFHashStore.get_existing: self.hashes.get(pdf_hash)
get_existing(pdf_hash) ==
    IF pdf_hash \in DOMAIN hashes THEN Some(hashes[pdf_hash]) ELSE None

\* PDFHashStore.mark_processed: self.hashes[pdf_hash] = {...}
mark_processed(pdf_hash, paper_id, output_dir, parser_used) ==
    [h \in DOMAIN hashes \cup {pdf_hash} |->
       IF h = pdf_hash
       THEN [paper_id |-> paper_id, output_dir |-> output_dir,
             parser |-> parser_used, processed_at |-> Stamp(now)]
       ELSE hashes[h]]

\* output_dir = os.path.join(OUTPUT_BASE, safe_id): a host path
OutputDir(paper_id) == <<"host", paper_id>>

\* output_dir.replace(_HOST_PATH_PREFIX, _CONTAINER_PATH_PREFIX) when a host
\* prefix is configured, the path itself otherwise
ContainerPath(dir) ==
    IF host_path_prefix /\ dir[1] = "host" THEN <<"container", dir[2]>> ELSE dir

\* the dict returned on a hash match
SkipResult(existing) ==
    [success |-> TRUE, indexed |-> TRUE,
     output_dir |-> ContainerPath(existing.output_dir), skipped |-> TRUE,
     reason |-> <<"Already processed as", existing.paper_id>>,
     parser |-> existing.parser]

\* the dict returned after a successful backend call
SuccessResult(j, parser) ==
    [success |-> TRUE, indexed |-> TRUE,
     output_dir |-> ContainerPath(OutputDir(j.paper_id)),
     entities_extracted |-> TRUE, parser |-> parser,
     pdf_hash |-> get_pdf_hash(j.pdf_path)]

\* f"Processing timeout ({PROCESS_TIMEOUT}s)"
TimeoutError == "Processing timeout (14400s)"

\* except asyncio.TimeoutError / except Exception: the failure dict for the
\* exception that left the try block
FailureResult(kind) ==
    [success |-> FALSE,
     error |-> IF kind = "timeout" THEN TimeoutError ELSE <<"str(e)", kind>>]

\* Mutant: the fallback is appended whatever the selected parser is.
ParsersToTry_always_fallback(j) ==
    LET selected_parser == IF IsSet(j.force_parser) THEN j.force_parser[1]
                           ELSE "mineru"
    IN <<selected_parser, "docling">>

\* selected_parser = job.force_parser or select_parser(job.pdf_path), which
\* answers "mineru" (DEFAULT_PARSER when the pages cannot be counted);
\* parsers_to_try = [selected_parser] plus "docling" as the fallback
ParsersToTry(j) ==
    LET selected_parser == IF IsSet(j.force_parser) THEN j.force_parser[1]
                           ELSE "mineru"
    IN IF selected_parser # "docling" THEN <<selected_parser, "docling">>
       ELSE <<selected_parser>>

\* how one awaited rag.process_document_complete call can end
BackendOutcomes == {"ok", "error", "timeout"}

\* data.get("force_parser")
ForceParsers == {None, Some("docling")}

\* Job(job_id, paper_id, pdf_path, webhook_url, force_parser, force_reprocess)
NewProcJob(paper_id, pdf_path, force_parser, force_reprocess) ==
    NewJob(None) @@ [paper_id |-> paper_id, pdf_path |-> pdf_path,
                     force_parser |-> force_parser,
                     force_reprocess |-> force_reprocess]

\* the file contents submitted so far
Submitted == {job[id].pdf_path : id \in 1..Len(job)}

ProcInit ==
    /\ job = <<>>
    /\ jobs = {}
    /\ job_history = <<>>
    /\ lock = 0
    /\ executor = <<>>
    /\ wpc = [w \in Workers |-> "idle"]
    /\ wjob = [w \in Workers |-> 0]
    /\ wresult = [w \in Workers |-> None]
    /\ wexc = [w \in Workers |-> None]
    /\ breaker = NewBreaker(failure_threshold, recovery_timeout)
    /\ now = 0
    /\ hpc = [h \in Handlers |-> "idle"]
    /\ hreq = [h \in Handlers |-> NoRequest]
    /\ webhook_log = <<>>
    /\ breaker_log = <<>>
    /\ hashes = <<>>
    /\ host_path_prefix \in BOOLEAN
    /\ parsers_to_try = [w \in Workers |-> <<>>]
    /\ backend_log = <<>>
    /\ cb_call = NoCall
    /\ failure_calls = <<>>
    /\ HttpVarsInit

\* handle_process reaches job_queue.submit_job(paper_id, pdf_path, None,
\* force_parser, force_reprocess): the job enters the live map and the
\* executor's queue.  Every request names a new paper; its file has a
\* content submitted before or the next new one.
ProcSubmit ==
    /\ Len(job) < MaxProcJobs
    /\ lock = 0
    /\ \E pdf_path \in 1..NumContents, fp \in ForceParsers, fr \in BOOLEAN :
         /\ \A c \in 1..(pdf_path - 1) : c \in Submitted
         /\ job' = Append(job, NewProcJob(Len(job) + 1, pdf_path, fp, fr))
    /\ jobs' = jobs \cup {Len(job) + 1}
    /\ executor' = Append(executor, Len(job) + 1)
    /\ webhook_log' = Append(webhook_log, <<>>)
    /\ breaker_log' = Append(breaker_log, <<>>)
    /\ backend_log' = Append(backend_log, <<>>)
    /\ UNCHANGED <<job_history, lock, wpc, wjob, wresult, wexc, breaker, now,
                   hpc, hreq, hashes, host_path_prefix, parsers_to_try, cb_call,
                   failure_calls, http_vars,
                   limiter_vars, lookup_vars, guard_vars, auth_vars, lock_vars, parser_vars>>

\* _do_process up to its first await: the hash, the lookup in the hash
\* store, the choice of the parsers, get_rag_instance and the start of the
\* first backend call.  get_pdf_hash or get_rag_instance may raise; the
\* exception is caught by `except Exception` and returned as a failure dict.
DoProcessToAwait(w) ==
    /\ wpc[w] = "run"
    /\ LET id == wjob[w]
           j == job[id]
           existing == IF LookupWanted(j) THEN get_existing(get_pdf_hash(j.pdf_path))
                       ELSE None
       IN \/ /\ wresult' = [wresult EXCEPT ![w] = Some(FailureResult("get_pdf_hash"))]
             /\ wpc' = [wpc EXCEPT ![w] = "status"]
             /\ UNCHANGED <<parsers_to_try, backend_log>>
          \/ /\ IsSet(existing)
             /\ wresult' = [wresult EXCEPT ![w] = Some(SkipResult(existing[1]))]
             /\ wpc' = [wpc EXCEPT ![w] = "status"]
             /\ UNCHANGED <<parsers_to_try, backend_log>>
          \/ /\ ~IsSet(existing)
             /\ \/ /\ backend_log' = [backend_log EXCEPT ![id] =
                        Append(@, [call |-> "get_rag_instance", outcome |-> "error"])]
                   /\ wresult' = [wresult EXCEPT ![w] = Some(FailureResult("get_rag_instance"))]
                   /\ wpc' = [wpc EXCEPT ![w] = "status"]
                   /\ UNCHANGED parsers_to_try
                \/ /\ parsers_to_try' = [parsers_to_try EXCEPT ![w] = ParsersToTry(j)]
                   /\ backend_log' = [backend_log EXCEPT ![id] =
                        Append(@, [call |-> ParsersToTry(j)[1], outcome |-> "running"])]
                   /\ wpc' = [wpc EXCEPT ![w] = "await"]
                   /\ UNCHANGED wresult
    /\ UNCHANGED <<job, jobs, job_history, lock, executor, wjob, wexc, breaker,
                   now, hpc, hreq, webhook_log, breaker_log, hashes,
                   host_path_prefix, cb_call, failure_calls,
                   http_vars,
                   limiter_vars, lookup_vars, guard_vars, auth_vars, lock_vars>>

\* ProcSpec leaves the parser setting of the RAGAnything instance out
DoProcessStart(w) == DoProcessToAwait(w) /\ UNCHANGED parser_vars

\* await asyncio.wait_for(rag.process_document_complete(...), PROCESS_TIMEOUT)
\* ends.  On success the hash is marked processed and the success dict is
\* returned.  Otherwise `except Exception as e: last_error = e; continue`:
\* the next parser is tried, or, after the last one, last_error is raised
\* again and returned as a failure dict.
DoProcessFromAwait(w) ==
    /\ wpc[w] = "await"
    /\ LET id == wjob[w]
           j == job[id]
           parser == Head(parsers_to_try[w])
           n == Len(backend_log[id])
       IN \E o \in BackendOutcomes :
            IF o = "ok"
            THEN /\ hashes' = mark_processed(get_pdf_hash(j.pdf_path), j.paper_id,
                                             OutputDir(j.paper_id), parser)
                 /\ wresult' = [wresult EXCEPT ![w] = Some(SuccessResult(j, parser))]
                 /\ backend_log' = [backend_log EXCEPT ![id][n].outcome = o]
                 /\ parsers_to_try' = [parsers_to_try EXCEPT ![w] = <<>>]
                 /\ wpc' = [wpc EXCEPT ![w] = "status"]
            ELSE IF Len(parsers_to_try[w]) > 1
            THEN /\ backend_log' = [backend_log EXCEPT ![id] =
                       Append([@ EXCEPT ![n].outcome = o],
                              [call |-> parsers_to_try[w][2], outcome |-> "running"])]
                 /\ parsers_to_try' = [parsers_to_try EXCEPT ![w] = Tail(@)]
                 /\ UNCHANGED <<hashes, wresult, wpc>>
            ELSE /\ backend_log' = [backend_log EXCEPT ![id][n].outcome = o]
                 /\ wresult' = [wresult EXCEPT ![w] = Some(FailureResult(o))]
                 /\ parsers_to_try' = [parsers_to_try EXCEPT ![w] = <<>>]
                 /\ wpc' = [wpc EXCEPT ![w] = "status"]
                 /\ UNCHANGED hashes
    /\ UNCHANGED <<job, jobs, job_history, lock, executor, wjob, wexc, breaker,
                   now, hpc, hreq, webhook_log, breaker_log, host_path_prefix,
                   cb_call, failure_calls,
                   http_vars,
                   limiter_vars, lookup_vars, guard_vars, auth_vars, lock_vars>>

\* ProcSpec leaves the parser setting of the RAGAnything instance out
DoProcessAwait(w) == DoProcessFromAwait(w) /\ UNCHANGED parser_vars

ProcWorker(w) ==
    \/ WorkerTake(w)
    \/ WorkerStatusProcessing(w)
    \/ DoProcessStart(w)
    \/ DoProcessAwait(w)
    \/ WorkerStatus(w)
    \/ WorkerResult(w)
    \/ WorkerError(w)
    \/ WorkerBreaker(w)
    \/ WorkerWebhook(w)
    \/ WorkerHistory(w)

ProcNext ==
    \/ ProcSubmit
    \/ \E w \in Workers : ProcWorker(w)

ProcSpec == ProcInit /\ [][ProcNext]_vars

\* -------------------------------------- the parser setting, ParserSpec
\* ParserSpec is ProcSpec with the parser setting: _do_process hands the
\* parser to the backend by assigning rag.config.parser, an attribute of the
\* one RAGAnything instance all jobs share, before it awaits
\* rag.process_document_complete(file_path, output_dir, parse_method), which
\* takes no parser argument.  The backend reads the attribute at some point
\* of the awaited call; the coroutines of other jobs run while it is awaited.

\* for parser in parsers_to_try: rag.config.parser = parser, then the call
\* is awaited
SetParser(w) ==
    /\ rag_config_parser' = Head(parsers_to_try'[w])
    /\ wread' = [wread EXCEPT ![w] = FALSE]
    /\ UNCHANGED backend_ran

\* _do_process up to its first await
ParserStart(w) ==
    /\ DoProcessToAwait(w)
    /\ IF wpc'[w] = "await" THEN SetParser(w) ELSE UNCHANGED parser_vars

\* the awaited backend call reads self.config.parser
BackendReads(w) ==
    /\ wpc[w] = "await"
    /\ ~wread[w]
    /\ wread' = [wread EXCEPT ![w] = TRUE]
    /\ backend_ran' = [backend_ran EXCEPT ![wjob[w]] =
         Append(@, [parser |-> Head(parsers_to_try[w]),
                    ran_with |-> rag_config_parser])]
    /\ UNCHANGED <<rag_config_parser, job, jobs, job_history, lock, executor,
                   wpc, wjob, wresult, wexc, breaker, now, hpc, hreq,
                   webhook_log, breaker_log, hashes, host_path_prefix,
                   parsers_to_try, backend_log, cb_call, failure_calls,
                   http_vars, limiter_vars, lookup_vars, guard_vars,
                   auth_vars, lock_vars>>

\* the awaited backend call ends: a call that succeeds has parsed the
\* document, so it has read the parser; after a failure the loop goes on
\* with the fallback, if any
ParserAwait(w) ==
    /\ DoProcessFromAwait(w)
    /\ IsSet(wresult'[w]) /\ wresult'[w][1].success => wread[w]
    /\ IF wpc'[w] = "await" THEN SetParser(w) ELSE UNCHANGED parser_vars

ParserWorker(w) ==
    \/ WorkerTake(w)
    \/ WorkerStatusProcessing(w)
    \/ ParserStart(w)
    \/ BackendReads(w)
    \/ ParserAwait(w)
    \/ WorkerStatus(w)
    \/ WorkerResult(w)
    \/ WorkerError(w)
    \/ WorkerBreaker(w)
    \/ WorkerWebhook(w)
    \/ WorkerHistory(w)

ParserNext ==
    \/ ProcSubmit
    \/ \E w \in Workers : ParserWorker(w)

ParserSpec == ProcInit /\ [][ParserNext]_vars

\* ------------------------------------------------ CircuitBreaker alone
\* BreakerSpec drives one CircuitBreaker, constructed with any threshold and
\* one of two recovery timeouts, by arbitrary calls of its methods while time
\* passes.  The queue is left out: it stays as constructed.

\* Mutant: reset closes the breaker but keeps the failure log.
reset_keeps_failures(cb) ==
    [cb EXCEPT !.state = "closed", !.last_failure_time = None]

\* CircuitBreaker.reset
reset(cb) ==
    [cb EXCEPT !.failures = <<>>, !.state = "closed", !.last_failure_time = None]

RecoveryTimeouts == {ShortRecoveryTimeout, DEFAULT_RECOVERY_TIMEOUT}

BreakerInit ==
    /\ job = <<>>
    /\ jobs = {}
    /\ job_history = <<>>
    /\ lock = 0
    /\ executor = <<>>
    /\ wpc = [w \in Workers |-> "idle"]
    /\ wjob = [w \in Workers |-> 0]
    /\ wresult = [w \in Workers |-> None]
    /\ wexc = [w \in Workers |-> None]
    /\ \E threshold \in 1..MaxThreshold, timeout \in RecoveryTimeouts :
         breaker = NewBreaker(threshold, timeout)
    /\ now = 0
    /\ hpc = [h \in Handlers |-> "idle"]
    /\ hreq = [h \in Handlers |-> NoRequest]
    /\ webhook_log = <<>>
    /\ breaker_log = <<>>
    /\ hashes = <<>>
    /\ host_path_prefix = FALSE
    /\ parsers_to_try = [w \in Workers |-> <<>>]
    /\ backend_log = <<>>
    /\ cb_call = NoCall
    /\ failure_calls = <<>>
    /\ HttpVarsInit

\* everything but the breaker, the clock and the record of the calls
queue_vars == <<job, jobs, job_history, lock, executor, wpc, wjob, wresult,
                wexc, hpc, hreq, webhook_log, breaker_log, hashes,
                host_path_prefix, parsers_to_try, backend_log, http_vars,
                limiter_vars, lookup_vars, guard_vars, auth_vars, lock_vars, parser_vars>>

\* time passes
Tick ==
    /\ now < MaxTime
    /\ now' = now + 1
    /\ UNCHANGED <<breaker, cb_call, failure_calls, queue_vars>>

CallRecordFailure ==
    /\ Len(failure_calls) < MaxFailureCalls
    /\ breaker' = record_failure(breaker, now)
    /\ cb_call' = [op |-> "record_failure", ret |-> None,
                  state_before |-> breaker.state]
    /\ failure_calls' = Append(failure_calls, now)
    /\ UNCHANGED <<now, queue_vars>>

CallRecordSuccess ==
    /\ breaker' = record_success(breaker)
    /\ cb_call' = [op |-> "record_success", ret |-> None]
    /\ UNCHANGED <<now, failure_calls, queue_vars>>

CallCanProceed ==
    /\ LET r == can_proceed(breaker, now) IN
         /\ breaker' = r[2]
         /\ cb_call' = [op |-> "can_proceed", ret |-> Some(r[1])]
    /\ UNCHANGED <<now, failure_calls, queue_vars>>

CallReset ==
    /\ breaker' = reset(breaker)
    /\ cb_call' = [op |-> "reset", ret |-> None, state_before |-> breaker.state]
    /\ failure_calls' = <<>>
    /\ UNCHANGED <<now, queue_vars>>

BreakerNext ==
    \/ Tick
    \/ CallRecordFailure
    \/ CallRecordSuccess
    \/ CallCanProceed
    \/ CallReset

BreakerSpec == BreakerInit /\ [][BreakerNext]_vars

\* -------------------------------------------- POST /process in detail
\* HttpSpec follows handle_process branch by branch, with the response it
\* sends, on a service that has already seen failed jobs: the breaker is
\* one failure short of tripping or has just tripped.  The pool threads run
\* _process_job as in Spec.  The request has passed _enforce_rate_limit.

\* Mutant: can_proceed lets every request through.
can_proceed_ignores_open(cb, t) == <<TRUE, cb>>

\* circuit_breaker.can_proceed() as handle_process calls it
handler_can_proceed(cb, t) == can_proceed(cb, t)

\* "retry_after": 300 of the queue-full answer, in minutes
QUEUE_FULL_RETRY_AFTER == 5

\* self.send_json(code, {...}): the response, told apart from the previous
\* one by the toggle
SendJson(code, retry_after, job_id, webhook_post) ==
    [code |-> code, retry_after |-> retry_after, job_id |-> job_id,
     webhook_post |-> webhook_post, toggle |-> ~response.toggle]

\* what read_json_body returns or raises: a JSON object, a ValueError
\* (invalid JSON, bad Content-Length), or JSON that is not an object
Bodies == {"object", "ValueError", "not_object"}

\* what sanitize_pdf_path does with the request's pdf_path
PdfPathOutcomes == {"ok", "ValueError", "PermissionError", "FileNotFoundError"}

\* a POST /process request: its body, whether pdf_path and paper_id are
\* both non-empty, force_reprocess, whether the output directory of the
\* paper holds markdown files, the pdf_path and the webhook_url
Requests ==
    [body : Bodies, has_fields : BOOLEAN, force_reprocess : BOOLEAN,
     cached : BOOLEAN, pdf_path : PdfPathOutcomes, webhook_url : WebhookUrls]

\* the status code handle_process answers after the capacity check; 202
\* stands for going on to submit_job
ValidateCode(req) ==
    IF req.body = "ValueError" THEN 400
    ELSE IF req.body = "not_object" THEN 500
    ELSE IF ~req.has_fields THEN 400
    ELSE IF ~req.force_reprocess /\ req.cached THEN 200
    ELSE IF req.pdf_path = "ValueError" THEN 400
    ELSE IF req.pdf_path = "PermissionError" THEN 403
    ELSE IF req.pdf_path = "FileNotFoundError" THEN 404
    ELSE 202

\* requests.post(url, ...) connects to the address the host name of the
\* URL resolves to when the call is made
PostAddress(url) == dns

\* the cached answer posts to the request's webhook_url, if one is given
CachedWebhookPost(req) ==
    IF IsSet(req.webhook_url) THEN Some(PostAddress(req.webhook_url[1])) ELSE None

\* a job that failed with a failure result and was retired
FailedJob ==
    [NewJob(None) EXCEPT !.status = FAILED, !.started_at = Stamp(0),
                         !.completed_at = Stamp(0),
                         !.error = Some("backend error")]

RECURSIVE AfterFailures(_, _)
\* the breaker after n record_failure calls at time 0
AfterFailures(cb, n) ==
    IF n = 0 THEN cb ELSE record_failure(AfterFailures(cb, n - 1), 0)

RECURSIVE HistoryOf(_)
\* the history after jobs 1..n were retired in order
HistoryOf(n) == IF n = 0 THEN <<>> ELSE HistoryAppend(HistoryOf(n - 1), n)

\* how many jobs have failed before: one short of the threshold, or the
\* threshold
PriorFailures == {DEFAULT_FAILURE_THRESHOLD - 1, DEFAULT_FAILURE_THRESHOLD}

HttpInit ==
    /\ \E n \in PriorFailures :
         /\ job = [i \in 1..n |-> FailedJob]
         /\ job_history = HistoryOf(n)
         /\ breaker = AfterFailures(NewBreaker(failure_threshold, recovery_timeout), n)
         /\ webhook_log = [i \in 1..n |-> <<>>]
         /\ breaker_log = [i \in 1..n |-> <<"record_failure">>]
         /\ resolved_at_submit = [i \in 1..n |-> None]
    /\ jobs = {}
    /\ lock = 0
    /\ executor = <<>>
    /\ wpc = [w \in Workers |-> "idle"]
    /\ wjob = [w \in Workers |-> 0]
    /\ wresult = [w \in Workers |-> None]
    /\ wexc = [w \in Workers |-> None]
    /\ now = 0
    /\ hpc = [h \in Handlers |-> "idle"]
    /\ hreq = [h \in Handlers |-> NoRequest]
    /\ hashes = <<>>
    /\ host_path_prefix = FALSE
    /\ parsers_to_try = [w \in Workers |-> <<>>]
    /\ backend_log = <<>>
    /\ cb_call = NoCall
    /\ failure_calls = <<>>
    /\ hin = [h \in Handlers |-> None]
    /\ response = NoResponse
    /\ dns \in {"public", "private"}
    /\ limiter = [max_requests |-> RATE_LIMIT_MAX_REQUESTS,
                  window_sec |-> RATE_LIMIT_WINDOW_SEC]
    /\ requests = <<>>
    /\ rl_lock = 0
    /\ lpc = [h \in Handlers |-> "idle"]
    /\ lnow = [h \in Handlers |-> 0]
    /\ lclient = [h \in Handlers |-> 0]
    /\ calls = <<>>
    /\ LookupVarsInit
    /\ ParserVarsInit
    /\ LockVarsInit
    /\ AuthVarsInit
    /\ GuardVarsInit

\* what the pool threads and the other specifications use
pool_vars == <<wpc, wjob, wresult, wexc, webhook_log, breaker_log, hashes,
               host_path_prefix, parsers_to_try, backend_log, cb_call,
               failure_calls, limiter_vars, lookup_vars, guard_vars, auth_vars, lock_vars, parser_vars>>

\* A POST /process arrives: if not circuit_breaker.can_proceed(): 503 with
\* retry_after = circuit_breaker.recovery_timeout.
\* At most MaxHttpJobs jobs exist or are on their way.
PostCanProceed(h) ==
    /\ FreeHandler(h)
    /\ Len(job) + Cardinality({g \in Handlers : hpc[g] # "idle"}) < MaxHttpJobs
    /\ LET r == handler_can_proceed(breaker, now) IN
         /\ breaker' = r[2]
         /\ IF r[1]
            THEN /\ hpc' = [hpc EXCEPT ![h] = "can_accept"]
                 /\ UNCHANGED response
            ELSE /\ response' = SendJson(503, Some(r[2].recovery_timeout), 0, None)
                 /\ UNCHANGED hpc
    /\ UNCHANGED <<job, jobs, job_history, lock, executor, now, hreq, hin, dns,
                   resolved_at_submit, pool_vars>>

\* if not job_queue.can_accept(): 429 with retry_after 300
PostCanAccept(h) ==
    /\ hpc[h] = "can_accept"
    /\ lock = 0
    /\ IF can_accept
       THEN /\ hpc' = [hpc EXCEPT ![h] = "validate"]
            /\ UNCHANGED response
       ELSE /\ hpc' = [hpc EXCEPT ![h] = "idle"]
            /\ response' = SendJson(429, Some(QUEUE_FULL_RETRY_AFTER), 0, None)
    /\ UNCHANGED <<job, jobs, job_history, lock, executor, breaker, now, hreq,
                   hin, dns, resolved_at_submit, pool_vars>>

\* Mutant: an answer is sent but handle_process does not return.
AfterAnswer_no_return(code) == "submit_job"

\* send_json(...); return   and the except clauses: once a request is
\* answered the handler is done; otherwise it goes on to submit_job
AfterAnswer(code) == IF code = 202 THEN "submit_job" ELSE "idle"

\* read_json_body, the required fields, the cached-output answer (with its
\* webhook call) and sanitize_pdf_path
PostValidate(h) ==
    /\ hpc[h] = "validate"
    /\ \E req \in Requests :
         LET code == ValidateCode(req) IN
           /\ hpc' = [hpc EXCEPT ![h] = AfterAnswer(code)]
           /\ hin' = [hin EXCEPT ![h] =
                        IF AfterAnswer(code) = "submit_job"
                        THEN Some([webhook_url |-> req.webhook_url]) ELSE None]
           /\ response' =
                IF code = 202 THEN response
                ELSE SendJson(code, None, 0,
                              IF code = 200 THEN CachedWebhookPost(req) ELSE None)
    /\ UNCHANGED <<job, jobs, job_history, lock, executor, breaker, now, hreq,
                   dns, resolved_at_submit, pool_vars>>

\* submit_job: job = Job(...); with self.lock: self.jobs[job_id] = job
PostSubmitInsert(h) ==
    /\ hpc[h] = "submit_job"
    /\ lock = 0
    /\ LET url == hin[h][1].webhook_url IN
         /\ job' = Append(job, NewJob(url))
         /\ resolved_at_submit' =
              Append(resolved_at_submit,
                     IF IsSet(url) THEN Some(PostAddress(url[1])) ELSE None)
    /\ jobs' = jobs \cup {Len(job) + 1}
    /\ webhook_log' = Append(webhook_log, <<>>)
    /\ breaker_log' = Append(breaker_log, <<>>)
    /\ hpc' = [hpc EXCEPT ![h] = "executor_submit"]
    /\ hreq' = [hreq EXCEPT ![h] = [job_id |-> Len(job) + 1]]
    /\ hin' = [hin EXCEPT ![h] = None]
    /\ UNCHANGED <<job_history, lock, executor, wpc, wjob, wresult, wexc,
                   breaker, now, response, dns, hashes, host_path_prefix,
                   parsers_to_try, backend_log, cb_call, failure_calls,
                   limiter_vars, lookup_vars, guard_vars, auth_vars, lock_vars, parser_vars>>

\* submit_job: self.executor.submit(self._process_job, job); return job;
\* handle_process answers 202 with the job id.
PostSubmitExecutor(h) ==
    /\ hpc[h] = "executor_submit"
    /\ executor' = Append(executor, hreq[h].job_id)
    /\ response' = SendJson(202, None, hreq[h].job_id, None)
    /\ hpc' = [hpc EXCEPT ![h] = "idle"]
    /\ hreq' = [hreq EXCEPT ![h] = NoRequest]
    /\ UNCHANGED <<job, jobs, job_history, lock, breaker, now, hin, dns,
                   resolved_at_submit, pool_vars>>

\* the DNS answer for the webhook host changes
DnsChange ==
    /\ dns' = IF dns = "public" THEN "private" ELSE "public"
    /\ UNCHANGED <<job, jobs, job_history, lock, executor, breaker, now, hpc,
                   hreq, hin, response, resolved_at_submit, pool_vars>>

Post(h) ==
    \/ PostCanProceed(h)
    \/ PostCanAccept(h)
    \/ PostValidate(h)
    \/ PostSubmitInsert(h)
    \/ PostSubmitExecutor(h)

HttpNext ==
    \/ \E h \in Handlers : Post(h)
    \/ \E w \in Workers : Worker(w)
    \/ DnsChange

HttpSpec == HttpInit /\ [][HttpNext]_vars

\* ------------------------------------------------ IpRateLimiter alone
\* LimiterSpec drives one IpRateLimiter, constructed with any max_requests
\* and window_sec, by allow calls of concurrent request threads while time
\* passes.  Here the clock counts ticks of 1/TicksPerSec second, so that
\* time.monotonic() has a fractional part.

TicksPerSec == 2

\* int(x) of a float x >= 0 given in ticks: whole seconds, truncated
IntSec(ticks) == ticks \div TicksPerSec

Max(a, b) == IF a >= b THEN a ELSE b

Clients == 1..NumClients

\* self._requests[client_ip] of a defaultdict(deque): a missing bucket is
\* created empty
BucketOf(table, c) == IF c \in DOMAIN table THEN table[c] ELSE <<>>

RECURSIVE Evict(_, _, _)
\* while bucket and (now - bucket[0]) >= self.window_sec: bucket.popleft()
Evict(bucket, t, window_sec) ==
    IF bucket # <<>> /\ t - bucket[1] >= window_sec * TicksPerSec
    THEN Evict(Tail(bucket), t, window_sec)
    ELSE bucket

\* retry_after = max(1, int(self.window_sec - (now - bucket[0])))
RetryAfter(bucket, t, window_sec) ==
    Max(1, IntSec(window_sec * TicksPerSec - (t - bucket[1])))

\* Mutant: the bucket is full only when it holds more than max_requests.
BucketFull_off_by_one(bucket, max_requests) == Len(bucket) > max_requests

\* if len(bucket) >= self.max_requests
BucketFull(bucket, max_requests) == Len(bucket) >= max_requests

\* if self.max_requests <= 0 or self.window_sec <= 0: return True, 0
Disabled(l) == l.max_requests <= 0 \/ l.window_sec <= 0

\* the locked part of allow for a caller that read the clock at t:
\* <<allowed, retry_after, table afterwards>>
allow_locked(table, l, c, t) ==
    LET bucket == Evict(BucketOf(table, c), t, l.window_sec)
        kept == [d \in DOMAIN table \cup {c} |-> IF d = c THEN bucket ELSE table[d]]
    IN IF BucketFull(bucket, l.max_requests)
       THEN <<FALSE, RetryAfter(bucket, t, l.window_sec), kept>>
       ELSE <<TRUE, 0, [kept EXCEPT ![c] = Append(bucket, t)]>>

LimiterInit ==
    /\ job = <<>>
    /\ jobs = {}
    /\ job_history = <<>>
    /\ lock = 0
    /\ executor = <<>>
    /\ wpc = [w \in Workers |-> "idle"]
    /\ wjob = [w \in Workers |-> 0]
    /\ wresult = [w \in Workers |-> None]
    /\ wexc = [w \in Workers |-> None]
    /\ breaker = NewBreaker(failure_threshold, recovery_timeout)
    /\ now = 0
    /\ hpc = [h \in Handlers |-> "idle"]
    /\ hreq = [h \in Handlers |-> NoRequest]
    /\ webhook_log = <<>>
    /\ breaker_log = <<>>
    /\ hashes = <<>>
    /\ host_path_prefix = FALSE
    /\ parsers_to_try = [w \in Workers |-> <<>>]
    /\ backend_log = <<>>
    /\ cb_call = NoCall
    /\ failure_calls = <<>>
    /\ HandlerVarsInit
    /\ \E n \in 0..MaxRequests, w \in 0..MaxWindow :
         limiter = [max_requests |-> n, window_sec |-> w]
    /\ requests = <<>>
    /\ rl_lock = 0
    /\ lpc = [h \in Handlers |-> "idle"]
    /\ lnow = [h \in Handlers |-> 0]
    /\ lclient = [h \in Handlers |-> 0]
    /\ calls = <<>>
    /\ LookupVarsInit
    /\ ParserVarsInit
    /\ LockVarsInit
    /\ AuthVarsInit
    /\ GuardVarsInit

\* everything but the limiter and the clock
rest_vars == <<job, jobs, job_history, lock, executor, wpc, wjob, wresult,
               wexc, breaker, hpc, hreq, webhook_log, breaker_log, hashes,
               host_path_prefix, parsers_to_try, backend_log, cb_call,
               failure_calls, http_vars, lookup_vars, guard_vars, auth_vars, lock_vars, parser_vars>>

\* time passes
LimiterTick ==
    /\ now < MaxTicks
    /\ now' = now + 1
    /\ UNCHANGED <<limiter_vars, rest_vars>>

\* a request thread calls allow(client_ip): the disabled limiter answers at
\* once; otherwise now = time.monotonic() is read, before the lock is taken
AllowStart(h) ==
    /\ lpc[h] = "idle"
    /\ \A g \in Handlers : g < h => lpc[g] # "idle"
    /\ Len(calls) + Cardinality({g \in Handlers : lpc[g] # "idle"}) < MaxAllowCalls
    /\ \E c \in Clients :
         IF Disabled(limiter)
         THEN /\ calls' = Append(calls, [client |-> c, t |-> now, allowed |-> TRUE,
                                         retry_after |-> 0])
              /\ UNCHANGED <<lpc, lnow, lclient>>
         ELSE /\ lpc' = [lpc EXCEPT ![h] = "lock"]
              /\ lnow' = [lnow EXCEPT ![h] = now]
              /\ lclient' = [lclient EXCEPT ![h] = c]
              /\ UNCHANGED calls
    /\ UNCHANGED <<limiter, requests, rl_lock, now, rest_vars>>

\* with self._lock: evict, compare, append, return
AllowLocked(h) ==
    /\ lpc[h] = "lock"
    /\ rl_lock = 0
    /\ LET r == allow_locked(requests, limiter, lclient[h], lnow[h]) IN
         /\ requests' = r[3]
         /\ calls' = Append(calls, [client |-> lclient[h], t |-> lnow[h],
                                    allowed |-> r[1], retry_after |-> r[2]])
    /\ lpc' = [lpc EXCEPT ![h] = "idle"]
    /\ lnow' = [lnow EXCEPT ![h] = 0]
    /\ lclient' = [lclient EXCEPT ![h] = 0]
    /\ UNCHANGED <<limiter, rl_lock, now, rest_vars>>

LimiterNext ==
    \/ LimiterTick
    \/ \E h \in Handlers : AllowStart(h) \/ AllowLocked(h)

LimiterSpec == LimiterInit /\ [][LimiterNext]_vars

\* ------------------------------------------------------ GET /jobs/<id>
\* LookupSpec adds a thread serving GET /jobs/<id> to the handlers and pool
\* threads of Spec, on a service that has already completed and retired
\* jobs.

\* a job that completed and was retired
CompletedJob ==
    [NewJob(None) EXCEPT !.status = COMPLETED, !.started_at = Stamp(0),
                         !.completed_at = Stamp(0),
                         !.result = Some([success |-> TRUE, indexed |-> TRUE])]

\* how many jobs were completed before: all but one or two of the job ids
PriorCompleted == {MaxJobs - 2, MaxJobs - 1}

LookupInit ==
    /\ \E n \in PriorCompleted :
         /\ job = [i \in 1..n |-> CompletedJob]
         /\ job_history = HistoryOf(n)
         /\ webhook_log = [i \in 1..n |-> <<>>]
         /\ breaker_log = [i \in 1..n |-> <<"record_success">>]
    /\ jobs = {}
    /\ lock = 0
    /\ executor = <<>>
    /\ wpc = [w \in Workers |-> "idle"]
    /\ wjob = [w \in Workers |-> 0]
    /\ wresult = [w \in Workers |-> None]
    /\ wexc = [w \in Workers |-> None]
    /\ breaker = NewBreaker(failure_threshold, recovery_timeout)
    /\ now = 0
    /\ hpc = [h \in Handlers |-> "idle"]
    /\ hreq = [h \in Handlers |-> NoRequest]
    /\ hashes = <<>>
    /\ host_path_prefix = FALSE
    /\ parsers_to_try = [w \in Workers |-> <<>>]
    /\ backend_log = <<>>
    /\ cb_call = NoCall
    /\ failure_calls = <<>>
    /\ HttpVarsInit

\* a job id no job ever gets
UnknownId == 0

\* the ids a client can ask for: those submit_job has returned, and an
\* unknown one
KnownIds == {id \in 1..Len(job) : \A h \in Handlers : hreq[h].job_id # id}

\* everything but the lookup thread
served_vars == <<job, jobs, job_history, lock, executor, wpc, wjob, wresult,
                 wexc, breaker, now, hpc, hreq, webhook_log, breaker_log,
                 hashes, host_path_prefix, parsers_to_try, backend_log,
                 cb_call, failure_calls, http_vars, limiter_vars, guard_vars,
                 auth_vars, lock_vars, parser_vars>>

\* GET /jobs/<id> arrives: job_id = self.path.split("/jobs/")[1]
GetArrives ==
    /\ gpc = "idle"
    /\ \E id \in KnownIds \cup {UnknownId} : gid' = id
    /\ gpc' = "get_job"
    /\ UNCHANGED <<gsnap, gpos, gresp, served_vars>>

\* job = job_queue.get_job(job_id), under the queue lock;
\* if job: self.send_json(200, job.to_dict())
GetJobLive ==
    /\ gpc = "get_job"
    /\ lock = 0
    /\ IF gid \in jobs
       THEN /\ gresp' = [id |-> gid, outcome |-> "job"]
            /\ gpc' = "idle"
            /\ gid' = UnknownId
       ELSE /\ gpc' = "iter"
            /\ UNCHANGED <<gresp, gid>>
    /\ UNCHANGED <<gsnap, gpos, served_vars>>

\* for hist_job in job_queue.job_history: the iterator is created, without
\* the queue lock; it remembers the state of the deque
GetIter ==
    /\ gpc = "iter"
    /\ gsnap' = job_history
    /\ gpos' = 1
    /\ gpc' = "scan"
    /\ UNCHANGED <<gid, gresp, served_vars>>

\* one step of the for loop: the iterator raises RuntimeError (deque
\* mutated during iteration) if the deque has changed since it was created;
\* at the end of the deque the loop ends and 404 is sent; a matching job is
\* sent with 200
ScanOutcome(history, snap, pos, id) ==
    IF history # snap THEN "RuntimeError"
    ELSE IF pos > Len(history) THEN "not_found"
    ELSE IF history[pos] = id THEN "job"
    ELSE "next"

GetScan ==
    /\ gpc = "scan"
    /\ LET o == ScanOutcome(job_history, gsnap, gpos, gid) IN
         IF o = "next"
         THEN /\ gpos' = gpos + 1
              /\ UNCHANGED <<gpc, gid, gsnap, gresp>>
         ELSE /\ gresp' = [id |-> gid, outcome |-> o]
              /\ gpc' = "idle"
              /\ gid' = UnknownId
              /\ gsnap' = <<>>
              /\ gpos' = 0
    /\ UNCHANGED served_vars

Get ==
    \/ GetArrives
    \/ GetJobLive
    \/ GetIter
    \/ GetScan

LookupNext ==
    \/ \E h \in Handlers : Handler(h)
    \/ \E w \in Workers : Worker(w)
    \/ Get

LookupSpec == LookupInit /\ [][LookupNext]_vars

\* ------------------------------------------------ sanitize_pdf_path alone
\* PathSpec: POST /process requests that reach sanitize_pdf_path, over a
\* small file tree.  A path is the sequence of its components; "/" is <<>>.
\*
\*   /allowed/            directory, the allowed root when one is configured
\*   /allowed/doc.pdf     regular file
\*   /allowed/DOC.PDF     regular file
\*   /allowed/note.txt    regular file
\*   /allowed/locked.pdf  regular file the process may not read
\*   /allowed/link.pdf    symbolic link to /secret.pdf
\*   /allowed/out         symbolic link to /
\*   /secret.pdf          regular file

\* longest path, in components, that a request names
MaxPathLen == 3

PathSegments ==
    {"allowed", "..", "doc.pdf", "DOC.PDF", "note.txt", "locked.pdf",
     "link.pdf", "out", "secret.pdf", "workspace"}

Dirs == {<<>>, <<"allowed">>}

RegularFiles ==
    {<<"allowed", "doc.pdf">>, <<"allowed", "DOC.PDF">>,
     <<"allowed", "note.txt">>, <<"allowed", "locked.pdf">>, <<"secret.pdf">>}

\* the files os.access(path, os.R_OK) refuses
Unreadable == {<<"allowed", "locked.pdf">>}

Links == {<<"allowed", "link.pdf">>, <<"allowed", "out">>}

LinkTarget(p) ==
    IF p = <<"allowed", "link.pdf">> THEN <<"secret.pdf">> ELSE <<>>

\* data.get("pdf_path", ""): a string naming an absolute path, a string
\* naming a relative one, a blank string, a string with a NUL character, or
\* a JSON value that is not a string
PathInputs ==
    [form : {"absolute"},
     segs : UNION {[1..n -> PathSegments] : n \in 0..MaxPathLen}]
    \cup [form : {"relative", "blank", "nul", "not_str"}, segs : {<<>>}]

\* the dirname of a canonical path; the root is its own parent
Parent(p) == IF p = <<>> THEN <<>> ELSE SubSeq(p, 1, Len(p) - 1)

RECURSIVE realpath(_, _)
\* Path.resolve(strict=True), i.e. os.path.realpath(strict=True): the
\* components are taken one by one from the canonical prefix `cur`; ".."
\* drops the last component, a symbolic link is replaced by its target, a
\* missing component raises FileNotFoundError and a component looked up in
\* a regular file NotADirectoryError
realpath(cur, rest) ==
    IF rest = <<>> THEN [err |-> "none", path |-> cur]
    ELSE LET name == Head(rest)
             p == Append(cur, name)
         IN IF name = ".." THEN realpath(Parent(cur), Tail(rest))
            ELSE IF p \in Links THEN realpath(LinkTarget(p), Tail(rest))
            ELSE IF p \in Dirs \cup RegularFiles THEN realpath(p, Tail(rest))
            ELSE IF cur \in RegularFiles
            THEN [err |-> "NotADirectoryError", path |-> <<>>]
            ELSE [err |-> "FileNotFoundError", path |-> <<>>]

\* translate_container_to_host_path with RAG_PATH_MAPPINGS unset: a path
\* that starts with "/workspace/" has this prefix replaced by the host
\* prefix (here "/allowed/") when one is configured
translate_container_to_host_path(segs) ==
    IF host_path_prefix /\ Len(segs) >= 2 /\ segs[1] = "workspace"
    THEN <<"allowed">> \o Tail(segs)
    ELSE segs

\* PurePath.suffix of the last component
Suffix(p) ==
    LET name == p[Len(p)] IN
      IF name \in {"doc.pdf", "locked.pdf", "link.pdf", "secret.pdf"} THEN ".pdf"
      ELSE IF name = "DOC.PDF" THEN ".PDF"
      ELSE IF name = "note.txt" THEN ".txt"
      ELSE ""

\* str.lower
Lower(s) == IF s = ".PDF" THEN ".pdf" ELSE s

\* _is_relative_to(path, root): path.relative_to(root) does not raise
IsRelativeTo(path, root) ==
    /\ Len(root) <= Len(path)
    /\ SubSeq(path, 1, Len(root)) = root

\* Mutant: the allowlist is applied to the path as it was given.
CheckedPath_raw(candidate, resolved) == candidate

\* the path that is compared with the allowed roots
CheckedPath(candidate, resolved) == resolved

Raises(e) == [kind |-> e, path |-> <<>>]

\* sanitize_pdf_path: the canonical path, or the exception raised
sanitize_pdf_path(inp) ==
    IF inp.form = "not_str" THEN Raises("ValueError")
    ELSE IF inp.form = "blank" THEN Raises("ValueError")
    ELSE IF inp.form = "nul" THEN Raises("ValueError")
    ELSE IF inp.form = "relative" THEN Raises("ValueError")
    ELSE LET candidate == translate_container_to_host_path(inp.segs)
             r == realpath(<<>>, candidate)
             resolved == r.path
         IN IF r.err = "FileNotFoundError" THEN Raises("FileNotFoundError")
            ELSE IF r.err # "none" THEN Raises("ValueError")
            ELSE IF resolved \notin RegularFiles THEN Raises("FileNotFoundError")
            ELSE IF Lower(Suffix(resolved)) # ".pdf" THEN Raises("ValueError")
            ELSE IF resolved \in Unreadable THEN Raises("PermissionError")
            ELSE IF /\ ~allow_unsafe_pdf_paths
                    /\ allowed_pdf_roots # <<>>
                    /\ ~\E i \in 1..Len(allowed_pdf_roots) :
                          IsRelativeTo(CheckedPath(candidate, resolved),
                                       allowed_pdf_roots[i])
            THEN Raises("PermissionError")
            ELSE [kind |-> "ok", path |-> resolved]

\* the status code of the except clause that catches the exception
ErrorCode(kind) ==
    IF kind = "ValueError" THEN 400
    ELSE IF kind = "PermissionError" THEN 403
    ELSE 404

\* The service starts with or without an allowed root, with or without
\* ALLOW_UNSAFE_PDF_PATHS and with or without a host path prefix; one
\* request with some pdf_path is on its way.
PathInit ==
    /\ job = <<>>
    /\ jobs = {}
    /\ job_history = <<>>
    /\ lock = 0
    /\ executor = <<>>
    /\ wpc = [w \in Workers |-> "idle"]
    /\ wjob = [w \in Workers |-> 0]
    /\ wresult = [w \in Workers |-> None]
    /\ wexc = [w \in Workers |-> None]
    /\ breaker = NewBreaker(failure_threshold, recovery_timeout)
    /\ now = 0
    /\ hpc = [h \in Handlers |-> "idle"]
    /\ hreq = [h \in Handlers |-> NoRequest]
    /\ webhook_log = <<>>
    /\ breaker_log = <<>>
    /\ hashes = <<>>
    /\ host_path_prefix \in BOOLEAN
    /\ parsers_to_try = [w \in Workers |-> <<>>]
    /\ backend_log = <<>>
    /\ cb_call = NoCall
    /\ failure_calls = <<>>
    /\ HandlerVarsInit
    /\ limiter = [max_requests |-> RATE_LIMIT_MAX_REQUESTS,
                  window_sec |-> RATE_LIMIT_WINDOW_SEC]
    /\ requests = <<>>
    /\ rl_lock = 0
    /\ lpc = [h \in Handlers |-> "idle"]
    /\ lnow = [h \in Handlers |-> 0]
    /\ lclient = [h \in Handlers |-> 0]
    /\ calls = <<>>
    /\ LookupVarsInit
    /\ ParserVarsInit
    /\ LockVarsInit
    /\ AuthVarsInit
    /\ allowed_pdf_roots \in {<<>>, << <<"allowed">> >>}
    /\ allow_unsafe_pdf_paths \in BOOLEAN
    /\ \E inp \in PathInputs : pcall = [input |-> Some(inp), outcome |-> None]

\* handle_process from pdf_path = sanitize_pdf_path(pdf_path) on: the job
\* is submitted with the returned path and 202 is answered, or the except
\* clause of the exception answers.  The checks in front of the call (see
\* HttpSpec) only remove behaviours.
PathRequest ==
    /\ IsSet(pcall.input)
    /\ ~IsSet(pcall.outcome)
    /\ lock = 0
    /\ LET out == sanitize_pdf_path(pcall.input[1]) IN
           /\ pcall' = [pcall EXCEPT !.outcome = Some(out)]
           /\ IF out.kind = "ok"
              THEN /\ job' = Append(job, NewProcJob(Len(job) + 1, out.path,
                                                    None, FALSE))
                   /\ jobs' = jobs \cup {Len(job) + 1}
                   /\ executor' = Append(executor, Len(job) + 1)
                   /\ webhook_log' = Append(webhook_log, <<>>)
                   /\ breaker_log' = Append(breaker_log, <<>>)
                   /\ backend_log' = Append(backend_log, <<>>)
                   /\ response' = SendJson(202, None, Len(job) + 1, None)
              ELSE /\ response' = SendJson(ErrorCode(out.kind), None, 0, None)
                   /\ UNCHANGED <<job, jobs, executor, webhook_log,
                                  breaker_log, backend_log>>
    /\ UNCHANGED <<job_history, lock, wpc, wjob, wresult, wexc, breaker, now,
                   hpc, hreq, hashes, host_path_prefix, parsers_to_try,
                   cb_call, failure_calls, hin, dns, resolved_at_submit,
                   limiter_vars, lookup_vars, allowed_pdf_roots,
                   allow_unsafe_pdf_paths, auth_vars, lock_vars, parser_vars>>

PathNext == PathRequest

PathSpec == PathInit /\ [][PathNext]_vars

\* ------------------------------------------------ do_GET / do_POST routing
\* AuthSpec: the requests do_GET and do_POST route, each with the
\* credential it carries (an X-API-Key or Authorization header, or none),
\* on a service that has already seen failed jobs and may have a full
\* queue.  Every request has passed _enforce_rate_limit; a handler runs
\* without interleaving, which removes behaviours only.

\* _query_sync calls followed
MaxQueries == 2

\* the credential a request carries: none, a wrong one, the service's key
Credentials == {None, Some("wrong-key"), Some("test-api-key")}

\* the GET endpoints that only report
ReportPaths == {"/health", "/status", "/jobs"}

\* the jobs waiting in the live map when the service is observed: none, or
\* as many as the queue accepts
WaitingJobs == {0, max_workers + MAX_QUEUE_DEPTH}

\* n jobs have failed and were retired, k jobs wait in the work queue
AuthInit ==
    /\ \E n \in PriorFailures, k \in WaitingJobs :
         /\ job = [i \in 1..(n + k) |-> IF i <= n THEN FailedJob ELSE NewJob(None)]
         /\ jobs = (n + 1)..(n + k)
         /\ executor = [i \in 1..k |-> n + i]
         /\ job_history = HistoryOf(n)
         /\ breaker = AfterFailures(NewBreaker(failure_threshold, recovery_timeout), n)
         /\ webhook_log = [i \in 1..(n + k) |-> <<>>]
         /\ breaker_log = [i \in 1..(n + k) |->
                             IF i <= n THEN <<"record_failure">> ELSE <<>>]
         /\ resolved_at_submit = [i \in 1..(n + k) |-> None]
    /\ lock = 0
    /\ wpc = [w \in Workers |-> "idle"]
    /\ wjob = [w \in Workers |-> 0]
    /\ wresult = [w \in Workers |-> None]
    /\ wexc = [w \in Workers |-> None]
    /\ now = 0
    /\ hpc = [h \in Handlers |-> "idle"]
    /\ hreq = [h \in Handlers |-> NoRequest]
    /\ hashes = <<>>
    /\ host_path_prefix = FALSE
    /\ parsers_to_try = [w \in Workers |-> <<>>]
    /\ backend_log = <<>>
    /\ cb_call = NoCall
    /\ failure_calls = <<>>
    /\ hin = [h \in Handlers |-> None]
    /\ response = NoResponse
    /\ dns = "public"
    /\ limiter = [max_requests |-> RATE_LIMIT_MAX_REQUESTS,
                  window_sec |-> RATE_LIMIT_WINDOW_SEC]
    /\ requests = <<>>
    /\ rl_lock = 0
    /\ lpc = [h \in Handlers |-> "idle"]
    /\ lnow = [h \in Handlers |-> 0]
    /\ lclient = [h \in Handlers |-> 0]
    /\ calls = <<>>
    /\ LookupVarsInit
    /\ ParserVarsInit
    /\ LockVarsInit
    /\ GuardVarsInit
    /\ AuthVarsInit

\* what the routing leaves alone
routed_vars == <<job_history, lock, wpc, wjob, wresult, wexc, now, hpc, hreq,
                 hashes, host_path_prefix, parsers_to_try, backend_log,
                 cb_call, hin, dns, limiter_vars, lookup_vars, guard_vars,
                 lock_vars, parser_vars>>

\* do_GET: /health, /status and /jobs answer 200 with a report
GetReport(cred) ==
    /\ \E path \in ReportPaths :
         areq' = [method |-> "GET", path |-> path, credential |-> cred]
    /\ response' = SendJson(200, None, 0, None)
    /\ UNCHANGED <<job, jobs, executor, breaker, webhook_log, breaker_log,
                   resolved_at_submit, failure_calls, queries, routed_vars>>

\* do_GET: /reset-circuit-breaker calls circuit_breaker.reset() and answers
\* 200
GetResetCircuitBreaker(cred) ==
    /\ areq' = [method |-> "GET", path |-> "/reset-circuit-breaker",
                credential |-> cred]
    /\ breaker' = reset(breaker)
    /\ failure_calls' = <<>>
    /\ response' = SendJson(200, None, 0, None)
    /\ UNCHANGED <<job, jobs, executor, webhook_log, breaker_log,
                   resolved_at_submit, queries, routed_vars>>

\* do_POST: /query with a query string runs _query_sync and answers 200
PostQuery(cred) ==
    /\ queries < MaxQueries
    /\ areq' = [method |-> "POST", path |-> "/query", credential |-> cred]
    /\ queries' = queries + 1
    /\ response' = SendJson(200, None, 0, None)
    /\ UNCHANGED <<job, jobs, executor, breaker, webhook_log, breaker_log,
                   resolved_at_submit, failure_calls, routed_vars>>

\* Mutant: the cached-output check comes before the capacity check.
ProcessCode_cache_first(proceed, accept, req) ==
    IF ~proceed THEN 503
    ELSE IF ValidateCode(req) = 200 THEN 200
    ELSE IF ~accept THEN 429
    ELSE ValidateCode(req)

\* the status code handle_process answers, from what can_proceed and
\* can_accept returned and from the request: the checks are made in this
\* order and each failing one answers and returns
ProcessCode(proceed, accept, req) ==
    IF ~proceed THEN 503
    ELSE IF ~accept THEN 429
    ELSE ValidateCode(req)

\* the requests followed here: a JSON object that names no webhook
RoutedRequests ==
    {req \in Requests : req.body = "object" /\ req.webhook_url = None}

\* do_POST: /process runs handle_process: the breaker check, the capacity
\* check, the body and its fields, the cached-output answer, the path
\* guard, then submit_job and 202.  At most MaxHttpJobs jobs are created.
PostProcess(cred) ==
    /\ lock = 0
    /\ \E req \in RoutedRequests :
         LET r == handler_can_proceed(breaker, now)
             code == ProcessCode(r[1], can_accept, req)
         IN /\ areq' = [method |-> "POST", path |-> "/process",
                        credential |-> cred, req |-> req]
            /\ breaker' = r[2]
            /\ IF code = 202
               THEN /\ Len(job) < MaxHttpJobs
                    /\ job' = Append(job, NewJob(req.webhook_url))
                    /\ jobs' = jobs \cup {Len(job) + 1}
                    /\ executor' = Append(executor, Len(job) + 1)
                    /\ webhook_log' = Append(webhook_log, <<>>)
                    /\ breaker_log' = Append(breaker_log, <<>>)
                    /\ resolved_at_submit' =
                         Append(resolved_at_submit,
                                IF IsSet(req.webhook_url)
                                THEN Some(PostAddress(req.webhook_url[1]))
                                ELSE None)
                    /\ response' = SendJson(202, None, Len(job) + 1, None)
               ELSE /\ response' =
                         SendJson(code,
                                  IF code = 503 THEN Some(r[2].recovery_timeout)
                                  ELSE IF code = 429 THEN Some(QUEUE_FULL_RETRY_AFTER)
                                  ELSE None,
                                  0,
                                  IF code = 200 THEN CachedWebhookPost(req) ELSE None)
                    /\ UNCHANGED <<job, jobs, executor, webhook_log,
                                   breaker_log, resolved_at_submit>>
    /\ UNCHANGED <<failure_calls, queries, routed_vars>>

AuthNext ==
    \E cred \in Credentials :
       \/ GetReport(cred)
       \/ GetResetCircuitBreaker(cred)
       \/ PostQuery(cred)
       \/ PostProcess(cred)

AuthSpec == AuthInit /\ [][AuthNext]_vars

\* ------------------------------------------------------------ LockSpec
\* The service at the level of its locks: every thread is the sequence of
\* lock operations its current call still has to make. A threading.Lock is
\* not reentrant: acquire blocks while anybody, the caller included, holds it.
Acq(l) == <<"acquire", l>>
Rel(l) == <<"release", l>>
\* `with l:` around statements that take no lock
With(l) == <<Acq(l), Rel(l)>>
\* run_in_shared_loop: asyncio.run_coroutine_threadsafe(coro, loop)
RunCoroutineOp == <<"run_coroutine_threadsafe", None>>
\* run_in_shared_loop: future.result(), blocks until the coroutine is done
FutureResultOp == <<"future.result", None>>

\* Mutant: the status report asks the queue for its status while it holds
\* the breaker lock.
StatusLocks_nested ==
    <<Acq(BREAKER_LOCK), Acq(QUEUE_LOCK), Rel(QUEUE_LOCK), Rel(BREAKER_LOCK)>>

\* GET /status: circuit_breaker.get_status(), then job_queue.get_status()
StatusLocks == With(BREAKER_LOCK) \o With(QUEUE_LOCK)

\* do_GET: /health and /status are not rate limited; /health also calls
\* hash_store.get_stats(); /jobs/<id> calls get_job, /jobs get_status,
\* /reset-circuit-breaker reset; a rate-limited request ends after allow.
GetLocks ==
    { StatusLocks \o With(HASH_LOCK),
      StatusLocks,
      With(LIMITER_LOCK),
      With(LIMITER_LOCK) \o With(QUEUE_LOCK),
      With(LIMITER_LOCK) \o With(BREAKER_LOCK) }

\* do_POST: allow; /process: can_proceed, can_accept (get_active_count),
\* submit_job, with an early return after each; /query: get_rag_instance.
PostLocks ==
    { With(LIMITER_LOCK) \o With(BREAKER_LOCK),
      With(LIMITER_LOCK) \o With(BREAKER_LOCK) \o With(QUEUE_LOCK),
      With(LIMITER_LOCK) \o With(BREAKER_LOCK) \o With(QUEUE_LOCK)
        \o With(QUEUE_LOCK),
      With(LIMITER_LOCK) \o With(RAG_LOCK) }

\* _process_job up to the call of the coroutine: the status is set under the
\* queue lock, get_shared_loop takes _loop_lock
ProcessJobEntryLocks ==
    With(QUEUE_LOCK) \o With(LOOP_LOCK) \o <<RunCoroutineOp, FutureResultOp>>

\* _process_job after the coroutine returned: record_success or
\* record_failure is called inside `with self.lock`, then the job is moved to
\* the history under the queue lock
OutcomeLocks ==
    <<Acq(QUEUE_LOCK), Acq(BREAKER_LOCK), Rel(BREAKER_LOCK), Rel(QUEUE_LOCK)>>
      \o With(QUEUE_LOCK)

\* _process_job, except branch: the status is set under the queue lock and
\* record_failure is called after the lock is released
ExceptLocks == With(QUEUE_LOCK) \o With(BREAKER_LOCK)

\* _do_process: get_existing unless force_reprocess (a hit returns), then
\* get_rag_instance, then mark_processed after a successful backend call; an
\* exception ends the coroutine at any point (it holds no lock at an await)
DoProcessLocks ==
    { <<>>,
      With(HASH_LOCK),
      With(HASH_LOCK) \o With(RAG_LOCK),
      With(HASH_LOCK) \o With(RAG_LOCK) \o With(HASH_LOCK),
      With(RAG_LOCK),
      With(RAG_LOCK) \o With(HASH_LOCK) }

\* everything but the lock-level variables
unlocked_vars == <<job, jobs, job_history, lock, executor, wpc, wjob, wresult,
                   wexc, breaker, now, hpc, hreq, webhook_log, breaker_log,
                   hashes, host_path_prefix, parsers_to_try, backend_log,
                   cb_call, failure_calls, http_vars, limiter_vars,
                   lookup_vars, guard_vars, auth_vars, parser_vars>>

HeldBy(t) == {l \in Locks : holder[l] = Some(t)}
NextOp(t) == IF prog[t] = <<>> THEN None ELSE Head(prog[t])

\* ThreadingMixIn starts a thread for a request: do_GET or do_POST
HandlerCall(h) ==
    /\ prog[HandlerThread(h)] = <<>>
    /\ \E p \in GetLocks \cup PostLocks :
         prog' = [prog EXCEPT ![HandlerThread(h)] = p]
    /\ UNCHANGED <<holder, coro, unlocked_vars>>

\* a pool thread starts _process_job(job)
ProcessJobCall(w) ==
    /\ prog[WorkerThread(w)] = <<>>
    /\ prog' = [prog EXCEPT ![WorkerThread(w)] = ProcessJobEntryLocks]
    /\ UNCHANGED <<holder, coro, unlocked_vars>>

\* lock.acquire(): blocks the calling thread until the lock is free
Acquire(t) ==
    /\ \E l \in Locks :
         /\ NextOp(t) = Acq(l)
         /\ holder[l] = None
         /\ holder' = [holder EXCEPT ![l] = Some(t)]
    /\ prog' = [prog EXCEPT ![t] = Tail(@)]
    /\ UNCHANGED <<coro, unlocked_vars>>

\* lock.release() at the end of a `with` block
Release(t) ==
    /\ \E l \in Locks :
         /\ NextOp(t) = Rel(l)
         /\ holder' = [holder EXCEPT ![l] = None]
    /\ prog' = [prog EXCEPT ![t] = Tail(@)]
    /\ UNCHANGED <<coro, unlocked_vars>>

\* run_in_shared_loop schedules self._do_process(job) on the shared loop
RunCoroutine(w) ==
    /\ NextOp(WorkerThread(w)) = RunCoroutineOp
    /\ \E c \in DoProcessLocks : coro' = [coro EXCEPT ![w] = c]
    /\ prog' = [prog EXCEPT ![WorkerThread(w)] = Tail(@)]
    /\ UNCHANGED <<holder, unlocked_vars>>

\* the coroutine gives way: await, return or raise
AwaitOp(w) == <<"await", w>>

\* The loop thread runs a ready coroutine up to the point where it gives
\* way. Coroutines only give way to each other at an await, and none holds
\* a lock there: the stretch is the coroutine's next `with` block, in which
\* the loop thread, and every coroutine with it, blocks if the lock is held.
LoopResume(w) ==
    /\ prog[LoopThread] = <<>>
    /\ coro[w] # <<>>
    /\ prog' = [prog EXCEPT ![LoopThread] =
                  SubSeq(coro[w], 1, 2) \o <<AwaitOp(w)>>]
    /\ UNCHANGED <<holder, coro, unlocked_vars>>

\* the coroutine the loop thread runs has left its `with` block
LoopYield(w) ==
    /\ NextOp(LoopThread) = AwaitOp(w)
    /\ coro' = [coro EXCEPT ![w] = SubSeq(@, 3, Len(@))]
    /\ prog' = [prog EXCEPT ![LoopThread] = Tail(@)]
    /\ UNCHANGED <<holder, unlocked_vars>>

\* future.result() returns or raises once the coroutine has ended; the
\* worker goes on in the try block or in its except branch
FutureResult(w) ==
    /\ NextOp(WorkerThread(w)) = FutureResultOp
    /\ coro[w] = <<>>
    /\ \E p \in {OutcomeLocks, ExceptLocks} :
         prog' = [prog EXCEPT ![WorkerThread(w)] = p]
    /\ UNCHANGED <<holder, coro, unlocked_vars>>

LockNext ==
    \/ \E h \in LockHandlers : HandlerCall(h)
    \/ \E w \in Workers : ProcessJobCall(w)
    \/ \E t \in LockThreads : Acquire(t)
    \/ \E t \in LockThreads : Release(t)
    \/ \E w \in Workers : RunCoroutine(w)
    \/ \E w \in Workers : LoopResume(w)
    \/ \E w \in Workers : LoopYield(w)
    \/ \E w \in Workers : FutureResult(w)

\* A running thread goes on; a thread blocked in acquire gets the lock if
\* the lock is free again and again; the loop runs its ready coroutines in
\* turn.
LockSpec ==
    /\ Init
    /\ [][LockNext]_vars
    /\ \A t \in LockThreads : SF_vars(Acquire(t)) /\ WF_vars(Release(t))
    /\ \A w \in Workers :
         /\ SF_vars(LoopResume(w))
         /\ WF_vars(LoopYield(w))
         /\ WF_vars(RunCoroutine(w))
         /\ WF_vars(FutureResult(w))

\* ------------------------------------------------------------ properties
Terminal(id) == job[id].status \in {COMPLETED, FAILED}
Capacity == max_workers + MAX_QUEUE_DEPTH
Active == {id \in jobs : job[id].status \in {QUEUED, PROCESSING}}
\* _process_job(job) has been called and has returned
Returned(id) ==
    /\ id \in 1..Len(job)
    /\ job[id].status # QUEUED
    /\ \A w \in Workers : wjob[w] # id
InHistory(id) == \E i \in 1..Len(job_history) : job_history[i] = id

\* C1: the status of a job only moves Queued -> Processing -> Completed or
\* Failed: a new job starts Queued, and every change of a job's status is
\* one of Queued->Processing, Processing->Completed, Processing->Failed.
C1_StatusStateMachine ==
    [][ /\ Len(job') >= Len(job)
        /\ \A id \in (Len(job) + 1)..Len(job') : job'[id].status = QUEUED
        /\ \A id \in 1..Len(job) :
             job'[id].status # job[id].status =>
               <<job[id].status, job'[id].status>> \in
                 { <<QUEUED, PROCESSING>>, <<PROCESSING, COMPLETED>>,
                   <<PROCESSING, FAILED>> } ]_vars

\* A job has been retired Completed and another one Failed.
C1_Witness ==
    /\ \E i \in 1..Len(job_history) : job[job_history[i]].status = COMPLETED
    /\ \E i \in 1..Len(job_history) : job[job_history[i]].status = FAILED

\* C2: the number of live jobs that are Queued or Processing never exceeds
\* max_workers + MAX_QUEUE_DEPTH.
C2_CapacityNeverExceeded == Cardinality(Active) <= Capacity


\* C3: can_accept answers true exactly when fewer than max_workers +
\* MAX_QUEUE_DEPTH live jobs are Queued or Processing (terminal jobs still in
\* the live map are not counted), and the call changes nothing but the
\* handler's own position.
C3_CanAcceptIffBelowCapacity ==
    [][ \A h \in Handlers :
          (hpc[h] = "can_accept" /\ hpc'[h] # "can_accept") =>
            /\ (hpc'[h] = "validate") <=> (Cardinality(Active) < Capacity)
            /\ hpc'[h] \in {"validate", "idle"}
            /\ UNCHANGED <<job, jobs, job_history, lock, executor, wpc, wjob,
                           wresult, wexc, breaker, now, hreq, webhook_log,
                           breaker_log, ext>> ]_vars

\* can_accept has answered true although the live map holds at least
\* max_workers + MAX_QUEUE_DEPTH jobs, one of them terminal.
C3_Witness ==
    /\ \E h \in Handlers : hpc[h] = "validate"
    /\ Cardinality(jobs) >= Capacity
    /\ \E id \in jobs : Terminal(id)

\* C4: under fair scheduling every job that submit_job has handed to the
\* pool eventually is Completed or Failed.
C4_EveryJobTerminates ==
    \A id \in JobIds :
      (id <= Len(job) /\ \A h \in Handlers : hreq[h].job_id # id)
        ~> (id <= Len(job) /\ Terminal(id))

\* As many jobs as the capacity were submitted and all are terminal.
C4_Witness ==
    /\ Len(job) >= Capacity
    /\ \A id \in 1..Len(job) : Returned(id) /\ Terminal(id)

\* C5: a Completed job has a result and no error, a Failed job has an error
\* and no result, a Queued or Processing job has neither.
C5_ExactlyOneOfResultError ==
    \A id \in 1..Len(job) :
      /\ job[id].status = COMPLETED => IsSet(job[id].result) /\ ~IsSet(job[id].error)
      /\ job[id].status = FAILED => IsSet(job[id].error) /\ ~IsSet(job[id].result)
      /\ job[id].status \in {QUEUED, PROCESSING} =>
           ~IsSet(job[id].result) /\ ~IsSet(job[id].error)

\* C6: once the except branch of _process_job has run for a job, the job is
\* Failed with the exception text as error and a completion time,
\* record_failure was called for it (and nothing else on the breaker), the
\* webhook was posted if one is configured, and the worker is free again.
FailedByException(id) ==
    /\ Returned(id)
    /\ job[id].error \in {Some(e) : e \in ExceptionTexts}

C6_ExceptionFailsJob ==
    /\ \A w \in Workers :
         wpc[w] \in {"except_status", "except_error", "except_breaker",
                     "except_webhook", "except_webhook_failed"} =>
           /\ wjob[w] \in 1..Len(job)
           /\ job[wjob[w]].status \in {PROCESSING, FAILED}
           /\ wpc[w] \in {"except_breaker", "except_webhook",
                         "except_webhook_failed"} =>
                /\ job[wjob[w]].status = FAILED
                /\ job[wjob[w]].error = wexc[w]
                /\ IsSet(job[wjob[w]].completed_at)
    /\ \A id \in 1..Len(job) :
         FailedByException(id) =>
           /\ job[id].status = FAILED
           /\ IsSet(job[id].completed_at)
           /\ breaker_log[id] = <<"record_failure">>
           /\ IsSet(job[id].webhook_url) =>
                /\ Len(webhook_log[id]) = 1
                /\ webhook_log[id][1].status = FAILED
                /\ webhook_log[id][1].error = job[id].error

\* More jobs than there are pool threads were failed by an exception, one of
\* them with a webhook: some thread ran a job after it had caught one.
C6_Witness ==
    /\ Cardinality({id \in 1..Len(job) : FailedByException(id)}) > max_workers
    /\ \E id \in 1..Len(job) : FailedByException(id) /\ IsSet(job[id].webhook_url)

\* C7: when _process_job has returned for a job, the job has left the live
\* map (it was moved to the history).
C7_TerminalJobsAreRetired ==
    \A id \in 1..Len(job) : Returned(id) => id \notin jobs

\* C8: the history never holds more than MAX_JOB_HISTORY jobs, and every
\* change of it appends one live job at the right end, dropping the oldest
\* entry, and only that one, if the history was full.
C8_HistoryBounded ==
    /\ [](Len(job_history) <= MAX_JOB_HISTORY)
    /\ [][ job_history' # job_history =>
             \E id \in jobs :
               /\ id \notin jobs'
               /\ job_history' =
                    Append(IF Len(job_history) = MAX_JOB_HISTORY
                           THEN Tail(job_history) ELSE job_history, id) ]_vars

\* The history is full and an older retired job has been evicted from it.
C8_Witness ==
    /\ Len(job_history) = MAX_JOB_HISTORY
    /\ \E id \in 1..Len(job) : Returned(id) /\ id \notin jobs /\ ~InHistory(id)

\* C9: at most one breaker update is made per job, only once the job is
\* terminal, record_success for a Completed and record_failure for a Failed
\* job, and exactly one has been made when _process_job returns.
C9_OneBreakerUpdatePerJob ==
    \A id \in 1..Len(job) :
      /\ Len(breaker_log[id]) <= 1
      /\ breaker_log[id] # <<>> =>
           /\ Terminal(id)
           /\ (breaker_log[id][1] = "record_success") <=> (job[id].status = COMPLETED)
           /\ (breaker_log[id][1] = "record_failure") <=> (job[id].status = FAILED)
      /\ Returned(id) => Len(breaker_log[id]) = 1

\* One finished job has reported a success and another one a failure.
C9_Witness ==
    /\ \E id \in 1..Len(job) : Returned(id) /\ breaker_log[id] = <<"record_success">>
    /\ \E id \in 1..Len(job) : Returned(id) /\ breaker_log[id] = <<"record_failure">>

\* C10: a webhook is posted only for a job with a webhook URL whose status
\* is Completed or Failed and whose result or error is stored, and the
\* payload carries that status, result and error.
C10_WebhookAfterTerminal ==
    \A id \in 1..Len(job) :
      webhook_log[id] # <<>> =>
        /\ IsSet(job[id].webhook_url)
        /\ Terminal(id)
        /\ IsSet(job[id].result) \/ IsSet(job[id].error)
        /\ \A i \in 1..Len(webhook_log[id]) :
             /\ webhook_log[id][i].status = job[id].status
             /\ webhook_log[id][i].result = job[id].result
             /\ webhook_log[id][i].error = job[id].error

\* Webhooks were posted for a Completed and for a Failed job.
C10_Witness ==
    /\ \E id \in 1..Len(job) :
         webhook_log[id] # <<>> /\ webhook_log[id][1].status = COMPLETED
    /\ \E id \in 1..Len(job) :
         webhook_log[id] # <<>> /\ webhook_log[id][1].status = FAILED

\* C11: a webhook delivery is attempted at most once per job; when the
\* delivery raises, the worker changes no job, makes no breaker call and no
\* further delivery, and goes on exactly as after a successful delivery: to
\* the move to the history (or, in the except branch, to the end of
\* _process_job); the worker that then leaves the history step has retired
\* its job.  While the failure is handled the job still has the status of
\* its outcome, its result or error, and its single breaker call.
C11_WebhookFailureIsolated ==
    /\ [](\A id \in 1..Len(job) : Len(webhook_log[id]) <= 1)
    /\ [](\A w \in Workers :
            wpc[w] \in {"webhook_failed", "except_webhook_failed"} =>
              /\ Terminal(wjob[w])
              /\ IsSet(job[wjob[w]].result) \/ IsSet(job[wjob[w]].error)
              /\ Len(webhook_log[wjob[w]]) = 1
              /\ webhook_log[wjob[w]][1] = WebhookPayload(wjob[w])
              /\ Len(breaker_log[wjob[w]]) = 1)
    /\ [][ \A w \in Workers :
             /\ (wpc[w] = "webhook_failed" /\ wpc'[w] # wpc[w]) =>
                  /\ wpc'[w] = "history"
                  /\ UNCHANGED <<job, jobs, job_history, breaker, breaker_log,
                                 webhook_log, executor, wjob>>
             /\ (wpc[w] = "except_webhook_failed" /\ wpc'[w] # wpc[w]) =>
                  /\ wpc'[w] = "idle"
                  /\ UNCHANGED <<job, jobs, job_history, breaker, breaker_log,
                                 webhook_log, executor>>
             /\ (wpc[w] = "history" /\ wpc'[w] # wpc[w]) =>
                  /\ wjob[w] \notin jobs'
                  /\ job_history' # <<>>
                  /\ job_history'[Len(job_history')] = wjob[w]
                  /\ job' = job ]_vars

\* A delivery has failed for a Completed job while an earlier job, for which
\* a delivery was attempted too, is already in the history.
C11_Witness ==
    /\ \E w \in Workers :
         wpc[w] = "webhook_failed" /\ job[wjob[w]].status = COMPLETED
    /\ \E i \in 1..Len(job_history) : webhook_log[job_history[i]] # <<>>

\* the job's stored result is the dict of the dedup fast path
Skipped(id) ==
    /\ IsSet(job[id].result)
    /\ DictGet(job[id].result[1], "skipped", FALSE)

\* the job's content hash, as its worker computes it
JobHash(id) == get_pdf_hash(job[id].pdf_path)

\* C12: when the worker has computed the hash of a job without
\* force_reprocess and the hash store holds a record for it, _do_process
\* returns a success dict with skipped = true and the stored record's output
\* location (seen from the container when a host prefix is configured),
\* without a backend call and without touching the hash store, and the job
\* ends Completed with that result.  With force_reprocess the store is not
\* consulted: the worker goes on to the backend, and the job never gets a
\* skipped result.  The hash store changes only when a backend call succeeds.
C12_DedupFastPath ==
    /\ [][ \A w \in Workers :
             (wpc[w] = "run" /\ wpc'[w] # "run"
              /\ wresult'[w] # Some(FailureResult("get_pdf_hash"))) =>
               LET id == wjob[w] IN
               IF ~job[id].force_reprocess /\ JobHash(id) \in DOMAIN hashes
               THEN /\ wpc'[w] = "status"
                    /\ IsSet(wresult'[w])
                    /\ wresult'[w][1].success
                    /\ DictGet(wresult'[w][1], "skipped", FALSE)
                    /\ wresult'[w][1].output_dir =
                         ContainerPath(hashes[JobHash(id)].output_dir)
                    /\ UNCHANGED <<hashes, backend_log>>
               ELSE /\ Len(backend_log'[id]) = Len(backend_log[id]) + 1
                    /\ UNCHANGED hashes ]_vars
    /\ [][ hashes' # hashes =>
             \E w \in Workers :
               /\ wpc[w] = "await" /\ wpc'[w] = "status"
               /\ backend_log'[wjob[w]][Len(backend_log'[wjob[w]])].outcome = "ok"
               /\ DOMAIN hashes' = DOMAIN hashes \cup {JobHash(wjob[w])} ]_vars
    /\ [](\A id \in 1..Len(job) :
            /\ Skipped(id) =>
                 /\ job[id].status = COMPLETED
                 /\ ~job[id].force_reprocess
                 /\ backend_log[id] = <<>>
                 /\ JobHash(id) \in DOMAIN hashes
            /\ (Returned(id) /\ ~job[id].force_reprocess /\ backend_log[id] = <<>>
                /\ job[id].status = COMPLETED) => Skipped(id)
            /\ (Returned(id) /\ job[id].force_reprocess) =>
                 \/ backend_log[id] # <<>>
                 \/ job[id].error = Some(FailureResult("get_pdf_hash").error))

\* With a host prefix configured, a job was skipped because an earlier job
\* of another paper had recorded the same content; its result names the
\* earlier paper's output directory as the container sees it.
C12_Witness ==
    /\ host_path_prefix
    /\ \E id \in 1..Len(job) :
         /\ Returned(id) /\ Skipped(id) /\ InHistory(id)
         /\ \E first \in 1..Len(job) :
              /\ first # id
              /\ job[id].result[1].output_dir = <<"container", job[first].paper_id>>
              /\ hashes[JobHash(id)].paper_id = job[first].paper_id

\* C13: when two jobs with the same file content have both been run, the
\* second one was submitted without force_reprocess and the first one ended
\* Completed by a backend call, then the second one has a skipped result and
\* no backend call was made for it (unless it failed before a parser was
\* called: its file could not be read or the backend could not be set up).
C13_SecondSubmissionSkipped ==
    \A first \in 1..Len(job), second \in 1..Len(job) :
      ( /\ first < second
        /\ job[first].pdf_path = job[second].pdf_path
        /\ ~job[second].force_reprocess
        /\ Returned(first) /\ job[first].status = COMPLETED /\ ~Skipped(first)
        /\ Returned(second)
        /\ job[second].error \notin
             {Some(FailureResult(k).error) : k \in {"get_pdf_hash", "get_rag_instance"}} )
      => (Skipped(second) /\ backend_log[second] = <<>>)

\* a backend call of the job ran into the processing timeout
TimedOut(id) ==
    \E i \in 1..Len(backend_log[id]) : backend_log[id][i].outcome = "timeout"

\* C14: a job one of whose backend calls exceeded the processing timeout
\* has, when its worker is done with it, the status Failed and the timeout
\* error.
C14_TimeoutFailsJob ==
    \A id \in 1..Len(job) :
      (Returned(id) /\ TimedOut(id)) =>
        /\ job[id].status = FAILED
        /\ job[id].error = Some(TimeoutError)

\* C15: a job is written only by the pool thread that runs it, so a job that
\* ends Failed (failure dict or exception) changes no other job; and under
\* fair scheduling every job handed to the pool, whether queued behind a
\* Failed job or submitted after it, still becomes Completed or Failed.
C15_FailureIsIsolated ==
    /\ [][ \A id \in 1..Len(job) :
             job'[id] # job[id] =>
               \E w \in Workers :
                 /\ wjob[w] = id
                 /\ wpc'[w] # wpc[w]
                 /\ \A other \in 1..Len(job) : other # id => job'[other] = job[other]
         ]_vars
    /\ \A id \in JobIds :
         ( /\ id <= Len(job)
           /\ \A h \in Handlers : hreq[h].job_id # id
           /\ \E f \in 1..Len(job) : f # id /\ job[f].status = FAILED )
           ~> (id <= Len(job) /\ Terminal(id))

\* After one job was failed by an exception and another by a failure dict,
\* a job submitted later than both has been run and is Completed.
C15_Witness ==
    \E f1 \in 1..Len(job), f2 \in 1..Len(job), id \in 1..Len(job) :
      /\ f1 < id /\ f2 < id
      /\ FailedByException(f1)
      /\ Returned(f2) /\ job[f2].status = FAILED /\ ~FailedByException(f2)
      /\ Returned(id) /\ job[id].status = COMPLETED

\* the record_failure calls of the trailing five minutes
RecentCalls ==
    Cardinality({i \in 1..Len(failure_calls) : now - failure_calls[i] < FAILURE_WINDOW})

\* C16: a record_failure call on a Closed breaker leaves it Open, with
\* can_proceed answering false, if at least failure_threshold record_failure
\* calls (this one included) were made in the trailing 5 minutes, and leaves
\* it Closed, with can_proceed answering true, if fewer were made.
C16_OpensAtThreshold ==
    [][ (Len(failure_calls') = Len(failure_calls) + 1 /\ breaker.state = "closed") =>
          IF RecentCalls' >= breaker.failure_threshold
          THEN breaker'.state = "open" /\ ~can_proceed(breaker', now')[1]
          ELSE breaker'.state = "closed" /\ can_proceed(breaker', now')[1] ]_vars

\* time elapsed since the most recent record_failure call
SinceLastFailure == now - failure_calls[Len(failure_calls)]

\* C17: an Open breaker has a recorded failure; while less than
\* recovery_timeout has elapsed since the most recent record_failure call,
\* can_proceed answers false and leaves the breaker as it is; once
\* recovery_timeout has elapsed, can_proceed answers true and sets the state
\* to Half-Open, changing nothing else.
C17_OpenUntilRecoveryTimeout ==
    /\ [](breaker.state = "open" =>
            /\ failure_calls # <<>>
            /\ breaker.last_failure_time = Some(failure_calls[Len(failure_calls)])
            /\ IF SinceLastFailure < breaker.recovery_timeout
               THEN can_proceed(breaker, now) = <<FALSE, breaker>>
               ELSE can_proceed(breaker, now) =
                      <<TRUE, [breaker EXCEPT !.state = "half-open"]>>)
    /\ [][ (breaker.state = "open" /\ cb_call'.op = "can_proceed"
            /\ <<breaker, cb_call>>' # <<breaker, cb_call>>) =>
             IF SinceLastFailure < breaker.recovery_timeout
             THEN cb_call'.ret = Some(FALSE) /\ breaker' = breaker
             ELSE /\ cb_call'.ret = Some(TRUE)
                  /\ breaker' = [breaker EXCEPT !.state = "half-open"] ]_vars

\* can_proceed has just answered true and made the breaker Half-Open,
\* exactly recovery_timeout after the last of several failures.
C17_Witness ==
    /\ breaker.state = "half-open"
    /\ cb_call = [op |-> "can_proceed", ret |-> Some(TRUE)]
    /\ Len(failure_calls) > 1
    /\ SinceLastFailure = breaker.recovery_timeout

\* C18: once can_proceed has answered true for a Half-Open breaker (the
\* probe is admitted) and neither record_success nor record_failure has been
\* called since, a further can_proceed call answers false.
C18_SingleProbe ==
    (breaker.state = "half-open" /\ cb_call = [op |-> "can_proceed", ret |-> Some(TRUE)])
      => ~can_proceed(breaker, now)[1]

\* C19: a record_failure call on a Half-Open breaker leaves it Open.
C19_FailedProbeReopens ==
    [][ (breaker.state = "half-open" /\ Len(failure_calls') = Len(failure_calls) + 1)
          => breaker'.state = "open" ]_vars

\* C20: record_success makes any breaker Closed, changing nothing else of
\* it, and can_proceed answers true for the breaker it leaves; the breaker
\* stays so until the next call.
C20_SuccessCloses ==
    /\ [](/\ record_success(breaker) = [breaker EXCEPT !.state = "closed"]
          /\ can_proceed(record_success(breaker), now) =
               <<TRUE, record_success(breaker)>>)
    /\ [](cb_call.op = "record_success" =>
            /\ breaker.state = "closed"
            /\ can_proceed(breaker, now) = <<TRUE, breaker>>)
    /\ [][ (cb_call'.op = "record_success" /\ cb_call.op # "record_success") =>
             /\ breaker'.state = "closed"
             /\ breaker'.failures = breaker.failures
             /\ breaker'.last_failure_time = breaker.last_failure_time ]_vars

\* record_success has closed a breaker that had tripped: the failures of
\* the last five minutes still reach the threshold.
C20_Witness ==
    /\ cb_call.op = "record_success"
    /\ breaker.state = "closed"
    /\ Cardinality(RecentFailures(breaker.failures, now)) >= breaker.failure_threshold

\* C21: reset, called on a breaker in any state, empties the failure log,
\* clears the last-failure time and sets the state to Closed, so that
\* can_proceed answers true for the breaker it leaves; and a breaker is
\* Open only if at least failure_threshold record_failure calls were made
\* since the last reset.
C21_ResetCloses ==
    /\ [](/\ reset(breaker).failures = <<>>
          /\ reset(breaker).last_failure_time = None
          /\ reset(breaker).state = "closed"
          /\ can_proceed(reset(breaker), now) = <<TRUE, reset(breaker)>>)
    /\ [](cb_call.op = "reset" =>
            /\ breaker = NewBreaker(breaker.failure_threshold, breaker.recovery_timeout)
            /\ can_proceed(breaker, now) = <<TRUE, breaker>>)
    /\ [](breaker.state = "open" => Len(failure_calls) >= breaker.failure_threshold)

\* reset has just closed a breaker that was Open with failures in its log,
\* before the recovery timeout had elapsed.
C21_Witness ==
    /\ cb_call.op = "reset"
    /\ cb_call.state_before = "open"
    /\ breaker.state = "closed"
    /\ breaker.failures = <<>>
    /\ now < ShortRecoveryTimeout


\* a POST /process arrives in this step: it is answered at once, or goes on
\* to the capacity check
PostArrives ==
    \/ hpc' = hpc /\ response' # response
    \/ \E h \in Handlers : hpc[h] = "idle" /\ hpc'[h] = "can_accept"

\* the breaker is Open and recovery_timeout has not elapsed since its last
\* failure
OpenAndCooling ==
    /\ breaker.state = "open"
    /\ IsSet(breaker.last_failure_time)
    /\ now - breaker.last_failure_time[1] < breaker.recovery_timeout

\* C22: a POST /process that arrives while the breaker is Open and the
\* recovery timeout has not elapsed is answered 503 with retry_after equal
\* to recovery_timeout, and creates no job: the live map, the history, the
\* work queue and the workers are as they were, and the request is over.
C22_OpenBreakerRefuses ==
    [][ (OpenAndCooling /\ PostArrives) =>
          /\ response'.code = 503
          /\ response'.retry_after = Some(breaker.recovery_timeout)
          /\ response'.job_id = 0
          /\ hpc' = hpc
          /\ UNCHANGED <<job, jobs, job_history, executor, wpc, wjob, breaker>> ]_vars

\* A request has just been refused with 503 by the breaker, which a failed
\* job of this run has tripped.
C22_Witness ==
    /\ response.code = 503
    /\ OpenAndCooling
    /\ \E id \in DOMAIN job : id >= DEFAULT_FAILURE_THRESHOLD /\ job[id].status = FAILED
                                /\ webhook_log[id] # <<>>


\* the earlier allow calls of the client of call i
EarlierCalls(i) == {j \in 1..(i - 1) : calls[j].client = calls[i].client}

\* the max_requests calls of the same client that came right before call i
PrecedingCalls(i) ==
    {j \in EarlierCalls(i) :
       Cardinality({k \in EarlierCalls(i) : k > j}) < limiter.max_requests}

\* window_sec in ticks
WindowTicks == limiter.window_sec * TicksPerSec

\* C23: with max_requests = N > 0 and window_sec = W > 0, an admitted call
\* returns (true, 0) and a rejected one (false, retry_after) with
\* retry_after > 0; the first N calls of a client are admitted; a call is
\* rejected when the N calls of the client right before it were admitted
\* and these and the call itself lie within W; a call made at least W after
\* every admitted call of the client is admitted; and a call changes no
\* other client's bucket.
C23_WindowAdmitsN ==
    /\ [](~Disabled(limiter) =>
          \A i \in 1..Len(calls) :
            /\ calls[i].allowed => calls[i].retry_after = 0
            /\ ~calls[i].allowed => calls[i].retry_after > 0
            /\ Cardinality(EarlierCalls(i)) < limiter.max_requests => calls[i].allowed
            /\ ( /\ Cardinality(PrecedingCalls(i)) = limiter.max_requests
                 /\ \A j \in PrecedingCalls(i) : calls[j].allowed
                 /\ \A a, b \in PrecedingCalls(i) \cup {i} :
                      calls[a].t - calls[b].t < WindowTicks )
                => ~calls[i].allowed
            /\ (\A j \in EarlierCalls(i) :
                   calls[j].allowed => calls[i].t - calls[j].t >= WindowTicks)
                => calls[i].allowed)
    /\ [][ Len(calls') > Len(calls) =>
             \A c \in DOMAIN requests :
               c # calls'[Len(calls')].client => requests'[c] = requests[c] ]_vars

\* A client was admitted max_requests times, rejected half a second later
\* with a retry_after that max(1, .) rounded up, and admitted again after the
\* window, while another client was admitted as well.
C23_Witness ==
    /\ limiter.max_requests = 1
    /\ limiter.window_sec = 1
    /\ Len(calls) = MaxAllowCalls
    /\ \E i, j, k \in 1..Len(calls) :
         /\ i < j /\ j < k
         /\ calls[i].client = calls[j].client /\ calls[j].client = calls[k].client
         /\ calls[i].allowed /\ ~calls[j].allowed /\ calls[k].allowed
         /\ calls[j].retry_after = 1
         /\ calls[j].t - calls[i].t = 1
         /\ EarlierCalls(i) = {}
    /\ \E i \in 1..Len(calls) : calls[i].client # calls[1].client /\ calls[i].allowed


\* bucket b holds what is left of bucket a after dropping elements from its
\* left end
IsSuffix(b, a) ==
    /\ Len(b) <= Len(a)
    /\ \A i \in 1..Len(b) : b[i] = a[Len(a) - Len(b) + i]

\* C24: after every allow call, under any interleaving of concurrent
\* callers, no client's bucket holds more than max_requests timestamps, the
\* timestamps of a bucket are in non-decreasing order, and a rejected call
\* appends nothing to the bucket.
C24_BucketInvariant ==
    /\ [](\A c \in DOMAIN requests :
            /\ Len(requests[c]) <= limiter.max_requests
            /\ \A i, j \in 1..Len(requests[c]) :
                 i < j => requests[c][i] <= requests[c][j])
    /\ [][ (Len(calls') > Len(calls) /\ ~calls'[Len(calls')].allowed) =>
             LET c == calls'[Len(calls')].client IN
               IsSuffix(requests'[c], BucketOf(requests, c)) ]_vars


\* the timestamps of bucket b are all older than the window at time t
AllStale(b, t) == \A i \in 1..Len(b) : t - b[i] >= WindowTicks

\* C25: once the bucket table has grown past its size threshold, an allow
\* call sweeps the table: it leaves no bucket whose timestamps are all older
\* than the window, so the table shrinks when there is such a bucket.
C25_StaleBucketsReclaimed ==
    [][ ( /\ Len(calls') > Len(calls)
          /\ ~Disabled(limiter)
          /\ Cardinality(DOMAIN requests) > SweepThreshold ) =>
          /\ \A c \in DOMAIN requests' :
               ~AllStale(requests'[c], calls'[Len(calls')].t)
          /\ (\E c \in DOMAIN requests :
                 /\ c # calls'[Len(calls')].client
                 /\ AllStale(requests[c], calls'[Len(calls')].t))
              => Cardinality(DOMAIN requests') < Cardinality(DOMAIN requests) ]_vars


\* the codes of a rejected POST /process
RejectionCodes == {400, 403, 404, 429}

Retired(id) == \E i \in 1..Len(job_history) : job_history[i] = id

\* C27: a GET /jobs/<id> for a job that is in the live map or in the
\* history when the answer is given (submit_job has returned and the job
\* has not been evicted) is answered with that job, never with not-found
\* and never with an error, whatever the workers do meanwhile; a lookup of
\* an id that was never issued is answered not-found.
C27_LookupFindsJob ==
    [][ (gpc # "idle" /\ gpc' = "idle") =>
          /\ gresp'.id = gid
          /\ (gid \in jobs \/ Retired(gid)) => gresp'.outcome = "job"
          /\ gid = UnknownId => gresp'.outcome = "not_found" ]_vars


\* C28: no job id is in the live map and in the history at the same time,
\* every job of the history is terminal, and no field of a job of the
\* history changes.
C28_HistoryIsFinal ==
    /\ [](\A id \in jobs : ~Retired(id))
    /\ [](\A i \in 1..Len(job_history) : Terminal(job_history[i]))
    /\ [][ \A id \in 1..Len(job) : Retired(id) => job'[id] = job[id] ]_vars

\* The history is full, with a Completed and a Failed job, while a pool
\* thread is working on a further job of the live map.
C28_Witness ==
    /\ Len(job_history) = MAX_JOB_HISTORY
    /\ \E i, j \in 1..Len(job_history) :
         /\ job[job_history[i]].status = COMPLETED
         /\ job[job_history[j]].status = FAILED
    /\ \E w \in Workers : wpc[w] = "webhook" /\ wjob[w] \in jobs


\* C29: with private webhook hosts disallowed and no host allow-listed, a
\* request whose webhook host resolves to no address or only to private,
\* loopback or link-local ones is rejected with 403 before a job is created
\* or a request is sent to the URL: handle_process goes on to submit_job,
\* creates a job, or posts the cached answer only for a webhook whose host
\* resolves to a public address.
C29_PrivateWebhookRejected ==
    /\ [][ \A h \in Handlers :
             ( /\ hpc[h] = "validate" /\ hpc'[h] = "submit_job"
               /\ IsSet(hin'[h][1].webhook_url) )
             => PostAddress(hin'[h][1].webhook_url[1]) = "public" ]_vars
    /\ [][ ( /\ Len(job') > Len(job)
             /\ IsSet(job'[Len(job')].webhook_url) )
           => resolved_at_submit'[Len(job')] = Some("public") ]_vars
    /\ [][ (response' # response /\ IsSet(response'.webhook_post))
           => response'.webhook_post = Some("public") ]_vars

\* C30: the webhook of a job is delivered to the address its host resolved
\* to when the job was submitted: at every requests.post of _call_webhook
\* the address connected to is the one recorded at submission, whatever the
\* DNS answers meanwhile.
C30_DeliveryToPinnedAddress ==
    [][ \A id \in 1..Len(job) :
          webhook_log'[id] # webhook_log[id] =>
            Some(PostAddress(job[id].webhook_url[1])) = resolved_at_submit[id] ]_vars

\* path enforcement is enabled and at least one root is allowed
Enforced == ~allow_unsafe_pdf_paths /\ allowed_pdf_roots # <<>>
UnderRoot(p) ==
    \E i \in 1..Len(allowed_pdf_roots) : IsRelativeTo(p, allowed_pdf_roots[i])
\* the canonical path of the request's pdf_path, when it has one
Canonical == realpath(<<>>, translate_container_to_host_path(pcall.input[1].segs))
PdfNames == {"doc.pdf", "DOC.PDF", "locked.pdf", "secret.pdf"}
\* the request named an absolute path and has been answered
PathAnswered ==
    /\ IsSet(pcall.input) /\ IsSet(pcall.outcome)
    /\ pcall.input[1].form = "absolute"
\* the returned path is the canonical path of an existing readable regular
\* .pdf file under an allowed root
ReturnedPathIsSafe ==
    pcall.outcome[1].kind = "ok" =>
      LET p == pcall.outcome[1].path IN
        /\ Canonical.err = "none" /\ p = Canonical.path
        /\ p \in RegularFiles \ Unreadable
        /\ p[Len(p)] \in PdfNames
        /\ UnderRoot(p)
\* a job is submitted exactly for a returned path, and with that path
SubmittedWithCanonical ==
    IF pcall.outcome[1].kind = "ok"
    THEN /\ Len(job) = 1
         /\ job[1].pdf_path = pcall.outcome[1].path
         /\ executor = <<1>>
         /\ response.code = 202
    ELSE /\ job = <<>>
         /\ executor = <<>>
         /\ response.code = ErrorCode(pcall.outcome[1].kind)

ValidCredential == Some("test-api-key")
\* a request has just been answered
Answered == response'.toggle # response.toggle

\* C32: when an API key is configured, every request to an endpoint other
\* than /health and /status that carries no credential or a wrong one is
\* answered 401 and has no effect (no job is created, no query runs, the
\* circuit breaker is not reset), and /health stays reachable without a
\* credential.  The source checks no credential: do_GET and do_POST route
\* every request, so this fails.
C32_UnauthorizedIs401 ==
    [][ Answered =>
          /\ (areq'.path \notin {"/health", "/status"}
              /\ areq'.credential # ValidCredential)
               => /\ response'.code = 401
                  /\ UNCHANGED <<job, jobs, executor, queries, breaker>>
          /\ areq'.path = "/health" => response'.code = 200 ]_vars

\* the parser _do_process selects for a job
SelectedParser(id) ==
    IF IsSet(job[id].force_parser) THEN job[id].force_parser[1] ELSE "mineru"
IsBackendCall(e) == e.call # "get_rag_instance"
\* the rag.process_document_complete calls made for a job, in order
BackendCalls(id) == SelectSeq(backend_log[id], IsBackendCall)
CallFailed(e) == e.outcome \in {"error", "timeout"}

ProcessAnswered == Answered /\ areq'.path = "/process"
\* the request names both fields, does not force reprocessing, and the
\* output directory of its paper holds markdown files
CachedHit(req) == req.has_fields /\ ~req.force_reprocess /\ req.cached
QueueFull == Cardinality(Active) >= Capacity
NoJobCreated == UNCHANGED <<job, jobs, executor>>

\* C34: POST /process applies its checks in a fixed order: circuit breaker,
\* then queue capacity, then required fields, then the cached-output check,
\* then the path guard, then submit.  So an open breaker yields 503 even if
\* the queue is full or a cached output exists, a full queue yields 429
\* even if a cached output exists, and a cached output yields 200 whatever
\* the path guard would say, without creating a job.
C34_CheckOrder ==
    [][ ProcessAnswered =>
          LET req == areq'.req
              code == response'.code
          IN /\ OpenAndCooling => (code = 503 /\ NoJobCreated)
             /\ (~OpenAndCooling /\ QueueFull) => (code = 429 /\ NoJobCreated)
             /\ (~OpenAndCooling /\ ~QueueFull /\ ~req.has_fields)
                  => (code = 400 /\ NoJobCreated)
             /\ (~OpenAndCooling /\ ~QueueFull /\ CachedHit(req))
                  => (code = 200 /\ NoJobCreated)
             /\ (~OpenAndCooling /\ ~QueueFull /\ req.has_fields /\ ~CachedHit(req))
                  => IF req.pdf_path = "ok"
                     THEN /\ code = 202
                          /\ Len(job') = Len(job) + 1
                          /\ executor' = Append(executor, Len(job'))
                     ELSE /\ code \in {400, 403, 404}
                          /\ NoJobCreated ]_vars

\* a request whose paper has a cached output was refused with 503 while the
\* queue was full
C34_Witness ==
    /\ areq.path = "/process"
    /\ CachedHit(areq.req)
    /\ response.code = 503
    /\ OpenAndCooling
    /\ QueueFull

\* the admitted calls of the client of call i made in the window that
\* starts with call i (the call itself included)
AdmittedInWindowFrom(i) ==
    {j \in 1..Len(calls) :
       /\ calls[j].client = calls[i].client
       /\ calls[j].allowed
       /\ calls[j].t >= calls[i].t
       /\ calls[j].t - calls[i].t < WindowTicks}

\* C35: sliding-window bound: for every client and every time interval of
\* length window_sec, the number of that client's requests admitted by
\* allow within the interval is at most max_requests, for any sequence and
\* interleaving of allow calls.  A call is placed at the instant it read
\* the clock; an interval with the most admitted calls starts at one of
\* them.  A thread that read the clock and then waited for the lock is
\* admitted after later calls have emptied the bucket, so this fails.
C35_SlidingWindowBound ==
    ~Disabled(limiter) =>
      \A i \in 1..Len(calls) :
        calls[i].allowed =>
          Cardinality(AdmittedInWindowFrom(i)) <= limiter.max_requests

\* the client of call i had no call admitted between calls i and k
NoneAdmittedBetween(i, k) ==
    \A j \in (i + 1)..(k - 1) :
      calls[j].client = calls[i].client => ~calls[j].allowed

\* C36: when allow rejects a client with retry_after = r, then r is at
\* least 1, and a call by the same client made r seconds after the rejected
\* call (with no other call of that client admitted in between) is
\* admitted.  int() cuts the fraction of the time left off, so a call made
\* r seconds later can come before the oldest entry has aged out.
C36_RetryAfterSuffices ==
    ~Disabled(limiter) =>
      \A i \in 1..Len(calls) :
        ~calls[i].allowed =>
          /\ calls[i].retry_after >= 1
          /\ \A k \in (i + 1)..Len(calls) :
               ( /\ calls[k].client = calls[i].client
                 /\ calls[k].t - calls[i].t = calls[i].retry_after * TicksPerSec
                 /\ NoneAdmittedBetween(i, k) )
               => calls[k].allowed

\* C37: each submitted job is executed by exactly one worker exactly once,
\* and never more than max_workers jobs are Processing: a job is handed to
\* the pool once, a worker takes a job only while it is Queued, off the
\* pool's queue and held by no worker; no two workers hold the same job;
\* only the worker that holds a job changes its status; a job that is
\* Processing is held by a worker.
Holders(id) == {w \in Workers : wjob[w] = id}
Processing == {id \in 1..Len(job) : job[id].status = PROCESSING}
Pending(id) == Cardinality({i \in 1..Len(executor) : executor[i] = id})
C37_OneWorkerPerJob ==
    [][ /\ \A id \in 1..Len(job) :
              /\ Cardinality(Holders(id)) + Pending(id) <= 1
              /\ Pending(id) = 1 => job[id].status = QUEUED
              /\ job[id].status = PROCESSING => Cardinality(Holders(id)) = 1
              /\ job'[id].status # job[id].status => Holders(id) # {}
        /\ Cardinality(Processing) <= max_workers
        /\ \A w \in Workers :
              (wjob'[w] # wjob[w] /\ wjob'[w] \in 1..Len(job)) =>
                /\ job[wjob'[w]].status = QUEUED
                /\ Pending(wjob'[w]) = 1
                /\ Holders(wjob'[w]) = {} ]_vars

\* Every worker holds a job that is Processing, a further job waits on the
\* pool's queue.
C37_Witness ==
    /\ Cardinality(Processing) = max_workers
    /\ \A w \in Workers : wjob[w] \in Processing
    /\ executor # <<>>

\* C38: no deadlock among handler and worker threads: a thread acquires a
\* lock while it holds none, except the breaker lock, which is also taken by
\* a thread that holds the job-queue lock and nothing else; and every thread
\* that requests a lock eventually gets it (a thread blocked in acquire
\* leaves it only with the lock).
WaitsFor(t, l) == NextOp(t) = Acq(l)
Blocked(t) == \E l \in Locks : WaitsFor(t, l)
C38_NoDeadlock ==
    /\ [][ \A t \in LockThreads, l \in Locks :
             (holder'[l] = Some(t) /\ holder[l] # Some(t)) =>
               \/ HeldBy(t) = {}
               \/ HeldBy(t) = {QUEUE_LOCK} /\ l = BREAKER_LOCK ]_vars
    /\ [][ \A t \in LockThreads, l \in Locks :
             (WaitsFor(t, l) /\ ~WaitsFor(t, l)') => holder'[l] = Some(t) ]_vars
    /\ \A t \in LockThreads : Blocked(t) ~> ~Blocked(t)

\* A pool thread holds the job-queue lock and the breaker lock at once, a
\* handler thread is blocked on the breaker lock and the other pool thread
\* on the job-queue lock.
C38_Witness ==
    /\ \E w \in Workers :
         HeldBy(WorkerThread(w)) = {QUEUE_LOCK, BREAKER_LOCK}
    /\ \E h \in LockHandlers : WaitsFor(HandlerThread(h), BREAKER_LOCK)
    /\ \E w \in Workers : WaitsFor(WorkerThread(w), QUEUE_LOCK)

\* C39: with jobs processed concurrently, every backend call runs with the
\* parser its own job started it for, and the parser stored in a job's
\* result and in its hash-store record is the one its successful backend
\* call ran with.
Processed(id) ==
    /\ job[id].status = COMPLETED
    /\ IsSet(job[id].result)
    /\ "skipped" \notin DOMAIN job[id].result[1]
LastRun(id) == backend_ran[id][Len(backend_ran[id])]
HashRecordOf(id) ==
    LET h == get_pdf_hash(job[id].pdf_path)
    IN IF h \in DOMAIN hashes /\ hashes[h].paper_id = job[id].paper_id
       THEN Some(hashes[h]) ELSE None
C39_ParserPerJob ==
    \A id \in 1..Len(job) :
      /\ \A i \in 1..Len(backend_ran[id]) :
           backend_ran[id][i].ran_with = backend_ran[id][i].parser
      /\ Processed(id) =>
           /\ job[id].result[1].parser = LastRun(id).ran_with
           /\ IsSet(HashRecordOf(id)) =>
                HashRecordOf(id)[1].parser = LastRun(id).ran_with

\* C40: record_success changes only the state of the breaker, leaving the
\* failure log and the last-failure time as they are, and the breaker
\* enters Open exactly at a record_failure call at which the failures logged
\* in the trailing five minutes, those logged before an intervening success
\* included, number at least failure_threshold.
RecentLogged(cb, t) == Cardinality(RecentFailures(cb.failures, t))
EntersOpen == breaker.state # "open" /\ breaker'.state = "open"
C40_OpensOnlyOnCountedFailure ==
    [][ /\ CallRecordSuccess =>
             /\ breaker'.failures = breaker.failures
             /\ breaker'.last_failure_time = breaker.last_failure_time
             /\ breaker' = [breaker EXCEPT !.state = breaker'.state]
        /\ EntersOpen <=>
             /\ CallRecordFailure
             /\ breaker.state # "open"
             /\ RecentLogged(breaker', now') >= breaker.failure_threshold ]_vars

\* A breaker that had been closed by a success is opened by the next
\* failure: of the logged failures that reach the threshold, all but the
\* last were logged before the success.
C40_Witness ==
    /\ cb_call.op = "record_failure"
    /\ cb_call.state_before = "closed"
    /\ breaker.state = "open"
    /\ breaker.failure_threshold > 1
    /\ RecentLogged(breaker, now) > breaker.failure_threshold

====
